---- MODULE Spec2Model ----
(***************************************************************************)
(* The conditional query filter of DataToolkit/Searcher.py: the expression *)
(* decomposer (getSubConditions, getAllSubConditions), the leaf parser     *)
(* (safelySplitConditionalString), the operator evaluator (applyOperator), *)
(* the row evaluator (checkCondition), the predicate builder               *)
(* (buildConditionalArgument) and the filter applyQueryCriteria acting on  *)
(* the searcher's stored result_table / result_dataframe.                  *)
(*                                                                         *)
(* A Python str is modelled as a sequence of one-character strings, so     *)
(* that indexing, slicing, split, replace and the regular expressions are  *)
(* computed character by character as the code computes them.              *)
(***************************************************************************)
EXTENDS Integers, Sequences, FiniteSets, TLC

\* ------------------------------------------------------------------------
\* Bounds of the model
\* ------------------------------------------------------------------------
\* largest cell value of column x and largest operand value
MaxVal == 4
\* largest number of rows of a catalogue drawn over the whole row pool
MaxRows == 2
\* largest number of alternative values handed to the builder
MaxValues == 2

\* ------------------------------------------------------------------------
\* Python str primitives
\* ------------------------------------------------------------------------
\* "c in s" for a one-character c
Contains(s, c) == \E i \in 1..Len(s) : s[i] = c

\* s[a-1:b] on 1-based inclusive positions; empty when a > b
Slice(s, a, b) == IF a > b THEN <<>> ELSE SubSeq(s, a, b)

\* sub in s for a non-empty sub
RECURSIVE ContainsStr(_, _)
ContainsStr(s, sub) ==
    IF Len(s) < Len(sub) THEN FALSE
    ELSE IF SubSeq(s, 1, Len(sub)) = sub THEN TRUE
    ELSE ContainsStr(Tail(s), sub)

UpperLetters ==
    <<"A", "B", "C", "D", "E", "F", "G", "H", "I", "J", "K", "L", "M",
      "N", "O", "P", "Q", "R", "S", "T", "U", "V", "W", "X", "Y", "Z">>
LowerLetters ==
    <<"a", "b", "c", "d", "e", "f", "g", "h", "i", "j", "k", "l", "m",
      "n", "o", "p", "q", "r", "s", "t", "u", "v", "w", "x", "y", "z">>

\* str.lower()
Lower(s) ==
    [i \in 1..Len(s) |->
        IF \E k \in 1..26 : UpperLetters[k] = s[i]
        THEN LowerLetters[CHOOSE k \in 1..26 : UpperLetters[k] = s[i]]
        ELSE s[i]]

\* the printable ASCII characters in code-point order (the apostrophe and
\* the grave accent, which no text of the model holds, by their names)
CodePoints ==
    <<" ", "!", "\"", "#", "$", "%", "&", "apostrophe", "(", ")", "*", "+", ",", "-", ".", "/",
      "0", "1", "2", "3", "4", "5", "6", "7", "8", "9", ":", ";", "<", "=", ">", "?",
      "@", "A", "B", "C", "D", "E", "F", "G", "H", "I", "J", "K", "L", "M", "N", "O",
      "P", "Q", "R", "S", "T", "U", "V", "W", "X", "Y", "Z", "[", "\\", "]", "^", "_",
      "grave", "a", "b", "c", "d", "e", "f", "g", "h", "i", "j", "k", "l", "m", "n", "o",
      "p", "q", "r", "s", "t", "u", "v", "w", "x", "y", "z", "{", "|", "}", "~">>

\* ord(c) of a printable ASCII character
Ord(c) == 31 + CHOOSE k \in 1..Len(CodePoints) : CodePoints[k] = c

\* a < b on str: the first differing character decides, a proper prefix is
\* smaller
RECURSIVE StrLess(_, _)
StrLess(a, b) ==
    IF b = <<>> THEN FALSE
    ELSE IF a = <<>> THEN TRUE
    ELSE IF a[1] # b[1] THEN Ord(a[1]) < Ord(b[1])
    ELSE StrLess(Tail(a), Tail(b))

\* str.replace(old, new): every non-overlapping occurrence, left to right
RECURSIVE Replace(_, _, _)
Replace(s, old, new) ==
    IF Len(s) < Len(old) \/ Len(old) = 0 THEN s
    ELSE IF SubSeq(s, 1, Len(old)) = old
         THEN new \o Replace(Slice(s, Len(old) + 1, Len(s)), old, new)
         ELSE <<s[1]>> \o Replace(Tail(s), old, new)

\* str.split(c) for a one-character separator: empty pieces are kept
RECURSIVE SplitFrom(_, _, _)
SplitFrom(s, c, acc) ==
    IF s = <<>> THEN <<acc>>
    ELSE IF s[1] = c THEN <<acc>> \o SplitFrom(Tail(s), c, <<>>)
    ELSE SplitFrom(Tail(s), c, Append(acc, s[1]))

Split(s, c) == SplitFrom(s, c, <<>>)

\* c.join(parts)
RECURSIVE Join(_, _)
Join(parts, c) ==
    IF parts = <<>> THEN <<>>
    ELSE IF Len(parts) = 1 THEN parts[1]
    ELSE parts[1] \o c \o Join(Tail(parts), c)

\* str.strip() of blanks
RECURSIVE LStrip(_)
LStrip(s) == IF s # <<>> /\ s[1] = " " THEN LStrip(Tail(s)) ELSE s

RECURSIVE RStrip(_)
RStrip(s) ==
    IF s # <<>> /\ s[Len(s)] = " " THEN RStrip(SubSeq(s, 1, Len(s) - 1)) ELSE s

Strip(s) == RStrip(LStrip(s))

Digits == <<"0", "1", "2", "3", "4", "5", "6", "7", "8", "9">>

IsDigit(c) == \E d \in 1..10 : Digits[d] = c

DigitValue(c) == (CHOOSE d \in 1..10 : Digits[d] = c) - 1

\* str(n) / f"{n}" of a non-negative int
RECURSIVE IntToStr(_)
IntToStr(n) ==
    IF n < 10 THEN <<Digits[n + 1]>>
    ELSE IntToStr(n \div 10) \o <<Digits[(n % 10) + 1]>>

RECURSIVE DigitsToInt(_, _)
DigitsToInt(s, acc) ==
    IF s = <<>> THEN acc ELSE DigitsToInt(Tail(s), 10 * acc + DigitValue(s[1]))

\* The literals of the expression language and of str(bool)
LP == <<"(">>
RP == <<")">>
SP == <<" ">>
TrueStr == <<"T", "r", "u", "e">>
FalseStr == <<"F", "a", "l", "s", "e">>
BetweenStr == <<"b", "e", "t", "w", "e", "e", "n">>
NotBetweenStr == <<"!">> \o BetweenStr
AngularSeparationStr ==
    <<"A", "N", "G", "U", "L", "A", "R", "_",
      "S", "E", "P", "A", "R", "A", "T", "I", "O", "N">>

\* str(boolean_value)
BoolToStr(b) == IF b THEN TrueStr ELSE FalseStr

\* Searcher.boolean_operators
boolean_operators == {"&", "|"}

\* any(boolean_operator in conditional_string for boolean_operator in ...)
HasBooleanOperator(s) == \E c \in boolean_operators : Contains(s, c)

\* ------------------------------------------------------------------------
\* Expression decomposer
\* ------------------------------------------------------------------------
\* conditional_string[0] == "(" and conditional_string[-1] == ")" (non-empty s)
IsEnclosed(s) == s[1] = "(" /\ s[Len(s)] = ")"

\* the conditional_string[1:-1] both decomposers and the leaf parser take
StripEnclosing(s) == IF IsEnclosed(s) THEN Slice(s, 2, Len(s) - 1) ELSE s

\* re pattern \(([^()]+)\) tried at an opening parenthesis at position i:
\* the position of the closing parenthesis of the match, 0 if there is none
RECURSIVE LeafMatchEnd(_, _, _)
LeafMatchEnd(s, i, k) ==
    IF k > Len(s) THEN 0
    ELSE IF s[k] = ")" THEN (IF k > i + 1 THEN k ELSE 0)
    ELSE IF s[k] = "(" THEN 0
    ELSE LeafMatchEnd(s, i, k + 1)

\* re.findall of \(([^()]+)\) from position i, each match with its parentheses
RECURSIVE FindAllLeaves(_, _)
FindAllLeaves(s, i) ==
    IF i > Len(s) THEN <<>>
    ELSE IF s[i] = "(" /\ LeafMatchEnd(s, i, i + 1) # 0
         THEN LET j == LeafMatchEnd(s, i, i + 1)
              IN  <<SubSeq(s, i, j)>> \o FindAllLeaves(s, j + 1)
         ELSE FindAllLeaves(s, i + 1)

\* re pattern \(((?:[^()]*|\([^()]*\))*)\) after its opening parenthesis:
\* d is the depth inside the group (0 or 1); the position of the closing
\* parenthesis of the match, 0 if there is none
RECURSIVE LayerMatchEnd(_, _, _)
LayerMatchEnd(s, k, d) ==
    IF k > Len(s) THEN 0
    ELSE IF s[k] = "(" THEN (IF d = 0 THEN LayerMatchEnd(s, k + 1, 1) ELSE 0)
    ELSE IF s[k] = ")" THEN (IF d = 1 THEN LayerMatchEnd(s, k + 1, 0) ELSE k)
    ELSE LayerMatchEnd(s, k + 1, d)

\* re.findall of the first-layer pattern from position i
RECURSIVE FindAllLayers(_, _)
FindAllLayers(s, i) ==
    IF i > Len(s) THEN <<>>
    ELSE IF s[i] = "(" /\ LayerMatchEnd(s, i + 1, 0) # 0
         THEN LET j == LayerMatchEnd(s, i + 1, 0)
              IN  <<SubSeq(s, i, j)>> \o FindAllLayers(s, j + 1)
         ELSE FindAllLayers(s, i + 1)

\* Searcher.getAllSubConditions; ok is FALSE where the code raises
\* (IndexError on the empty string)
getAllSubConditions(conditional_string) ==
    IF conditional_string = <<>> THEN [ok |-> FALSE, v |-> <<>>]
    ELSE LET s == StripEnclosing(conditional_string)
         IN  IF HasBooleanOperator(s)
             THEN [ok |-> TRUE, v |-> FindAllLeaves(s, 1)]
             ELSE [ok |-> TRUE, v |-> <<LP \o s \o RP>>]

\* Searcher.getSubConditions; ok is FALSE where the code raises
getSubConditions(conditional_string) ==
    IF conditional_string = <<>> THEN [ok |-> FALSE, v |-> <<>>]
    ELSE LET s == StripEnclosing(conditional_string)
         IN  IF HasBooleanOperator(s)
             THEN [ok |-> TRUE, v |-> FindAllLayers(s, 1)]
             ELSE [ok |-> TRUE, v |-> <<LP \o s \o RP>>]

\* ------------------------------------------------------------------------
\* Leaf predicate parser
\* ------------------------------------------------------------------------
\* safelySplitConditionalString, the two nested strips of an enclosing pair
StripTwoLayers(s) ==
    IF IsEnclosed(s) THEN StripEnclosing(Slice(s, 2, Len(s) - 1)) ELSE s

\* safelySplitConditionalString, the tokens after the split on blanks: field,
\* operator and the remaining tokens joined again
ThreeParts(split_conditional_string) ==
    IF Len(split_conditional_string) = 3
    THEN [ok |-> TRUE, v |-> split_conditional_string]
    ELSE IF Len(split_conditional_string) < 2 THEN [ok |-> FALSE, v |-> <<>>]
    ELSE [ok |-> TRUE,
          v |-> <<split_conditional_string[1], split_conditional_string[2],
                  Join(SubSeq(split_conditional_string, 3,
                              Len(split_conditional_string)), SP)>>]

\* Searcher.safelySplitConditionalString; ok is FALSE where the code raises:
\* ValueError on a boolean operator, IndexError on an empty string (before or
\* after the first layer is stripped) and on fewer than two tokens
safelySplitConditionalString(conditional_string) ==
    IF HasBooleanOperator(conditional_string) THEN [ok |-> FALSE, v |-> <<>>]
    ELSE IF conditional_string = <<>> THEN [ok |-> FALSE, v |-> <<>>]
    ELSE IF IsEnclosed(conditional_string)
              /\ Slice(conditional_string, 2, Len(conditional_string) - 1) = <<>>
         THEN [ok |-> FALSE, v |-> <<>>]
    ELSE ThreeParts(Split(StripTwoLayers(conditional_string), " "))

\* ------------------------------------------------------------------------
\* Tables, units and coercion
\* ------------------------------------------------------------------------
\* The columns of the modelled catalogue: x declares a unit (arcsec, an angle
\* unit), y declares none and holds integers, OTYPES declares none and holds
\* strings, which may list several values separated by "|".
OTYPES == <<"O", "T", "Y", "P", "E", "S">>

ColumnNames == {<<"x">>, <<"y">>, OTYPES}

\* table[column_name].dtype.type: "str" for OTYPES, "number" for x and y
ColumnType(column_name) == IF column_name = OTYPES THEN "str" ELSE "number"

\* table[column_name].unit; "None" for a column without unit
ColumnUnit(column_name) == IF column_name = <<"x">> THEN "arcsec" ELSE "None"

\* table[column_name] of a row
Cell(row, column_name) ==
    IF column_name = <<"x">> THEN row.x
    ELSE IF column_name = <<"y">> THEN row.y
    ELSE row.OTYPES

\* float(text) / int(text) / Angle(text, unit) / Quantity(text, unit) on the
\* literals of the model (unsigned integers, blanks around them ignored);
\* ok is FALSE where the conversion raises
ParseDigits(s) ==
    IF s # <<>> /\ \A i \in 1..Len(s) : IsDigit(s[i])
    THEN [ok |-> TRUE, n |-> DigitsToInt(s, 0)]
    ELSE [ok |-> FALSE, n |-> 0]

ParseNumber(text) == ParseDigits(Strip(text))

\* A coerced operand: k = "num" (a scalar n), "list" (the list l) or "err"
\* (the coercion raised)
ErrOperand == [k |-> "err", n |-> 0, l |-> <<>>]

\* the operand made of one converted value
NumOperand(parsed) ==
    IF parsed.ok THEN [k |-> "num", n |-> parsed.n, l |-> <<>>] ELSE ErrOperand

\* the operand made of a list of converted values
ListOperand(parsed) ==
    IF \A i \in 1..Len(parsed) : parsed[i].ok
    THEN [k |-> "list", n |-> 0, l |-> [i \in 1..Len(parsed) |-> parsed[i].n]]
    ELSE ErrOperand

\* Searcher.applyUnit on a str or a list of str, unit not None
applyUnit(value, isList) ==
    IF isList
    THEN ListOperand([i \in 1..Len(value) |-> ParseNumber(value[i])])
    ELSE NumOperand(ParseNumber(value))

\* checkCondition, the coercion of the value token: with a unit a bracketed
\* token is split on commas and every element gets the unit; without a unit
\* the whole token is cast to the column's type
CoerceValue(column_unit, value) ==
    IF column_unit # "None"
    THEN IF Contains(value, "[") /\ Contains(value, "]")
         THEN applyUnit(Split(Slice(value, 2, Len(value) - 1), ","), TRUE)
         ELSE applyUnit(value, FALSE)
    ELSE NumOperand(ParseNumber(value))

\* ------------------------------------------------------------------------
\* Operator evaluator
\* ------------------------------------------------------------------------
Abs(a) == IF a < 0 THEN -a ELSE a
Min(a, b) == IF a <= b THEN a ELSE b
Max(a, b) == IF a >= b THEN a ELSE b

OkBool(b) == [ok |-> TRUE, v |-> b]
Raised == [ok |-> FALSE, v |-> FALSE]

\* a comparison of the numeric cell with the operand: with a list operand the
\* comparison yields an array, whose text is no boolean for the later eval
Compare(op, column_value, value) ==
    IF value.k # "num" THEN Raised
    ELSE CASE op = "<" -> OkBool(column_value.n < value.n)
           [] op = ">" -> OkBool(column_value.n > value.n)
           [] op = "<=" -> OkBool(column_value.n <= value.n)
           [] op = ">=" -> OkBool(column_value.n >= value.n)
           [] op = "=" -> OkBool(column_value.n = value.n)
           [] op = "!=" -> OkBool(column_value.n # value.n)

\* abs(column_value - value) <= threshold
WithinThreshold(threshold, column_value, value) ==
    IF ~threshold.ok \/ value.k # "num" THEN Raised
    ELSE OkBool(Abs(column_value.n - value.n) <= threshold.n)

\* the "~=,threshold" branch: the threshold is the text after the comma,
\* given column_value.unit, which only a quantity has
ApproxEqual(operator, column_value, value) ==
    IF Len(Split(operator, ",")) < 2 \/ ~column_value.unit THEN Raised
    ELSE WithinThreshold(ParseNumber(Split(operator, ",")[2]), column_value, value)

\* a "between" branch that takes the first two of any number of bounds
BetweenLenient(column_value, value) ==
    IF value.k # "list" THEN Raised
    ELSE IF Len(value.l) < 2 THEN Raised
    ELSE OkBool(/\ column_value.n >= Min(value.l[1], value.l[2])
                /\ column_value.n <= Max(value.l[1], value.l[2]))

\* the "between" branch: min and max of the two bounds
Between(column_value, value) ==
    IF value.k # "list" THEN Raised
    ELSE IF Len(value.l) # 2 THEN Raised
    ELSE LET value_min == Min(value.l[1], value.l[2])
             value_max == Max(value.l[1], value.l[2])
         IN  OkBool(column_value.n >= value_min /\ column_value.n <= value_max)

\* a "!between" branch that orders the bounds first
NotBetweenOrdered(column_value, value) ==
    IF value.k # "list" THEN Raised
    ELSE IF Len(value.l) # 2 THEN Raised
    ELSE OkBool(~(/\ column_value.n >= Min(value.l[1], value.l[2])
                  /\ column_value.n <= Max(value.l[1], value.l[2])))

\* the "!between" branch: the bounds as given
NotBetween(column_value, value) ==
    IF value.k # "list" THEN Raised
    ELSE IF Len(value.l) # 2 THEN Raised
    ELSE LET value_min == value.l[1]
             value_max == value.l[2]
         IN  OkBool(~(column_value.n >= value_min /\ column_value.n <= value_max))

\* Searcher.applyOperator for a numeric cell: column_value is [n, unit] with
\* unit TRUE for a quantity. like / !like / in / !in raise on numbers
\* (no .lower(), not iterable); any other operator is invalid.
applyOperator(operator, column_value, value) ==
    IF operator = <<"<">> THEN Compare("<", column_value, value)
    ELSE IF operator = <<">">> THEN Compare(">", column_value, value)
    ELSE IF operator = <<"<", "=">> THEN Compare("<=", column_value, value)
    ELSE IF operator = <<">", "=">> THEN Compare(">=", column_value, value)
    ELSE IF operator = <<"=">> THEN Compare("=", column_value, value)
    ELSE IF operator = <<"=", "=">> THEN Compare("=", column_value, value)
    ELSE IF operator = <<"!", "=">> THEN Compare("!=", column_value, value)
    ELSE IF ContainsStr(operator, <<"~", "=">>)
         THEN ApproxEqual(operator, column_value, value)
    ELSE IF operator = BetweenStr THEN Between(column_value, value)
    ELSE IF operator = NotBetweenStr THEN NotBetween(column_value, value)
    ELSE Raised

\* ------------------------------------------------------------------------
\* eval of the substituted expression
\* ------------------------------------------------------------------------
\* The characters of a Python name
NameChars ==
    {"a", "b", "c", "d", "e", "f", "g", "h", "i", "j", "k", "l", "m", "n",
     "o", "p", "q", "r", "s", "t", "u", "v", "w", "x", "y", "z",
     "A", "B", "C", "D", "E", "F", "G", "H", "I", "J", "K", "L", "M", "N",
     "O", "P", "Q", "R", "S", "T", "U", "V", "W", "X", "Y", "Z", "_",
     "0", "1", "2", "3", "4", "5", "6", "7", "8", "9"}

RECURSIVE SkipBlanks(_, _)
SkipBlanks(s, i) == IF i <= Len(s) /\ s[i] = " " THEN SkipBlanks(s, i + 1) ELSE i

\* the end of the name that starts at position i
RECURSIVE NameEnd(_, _)
NameEnd(s, i) == IF i <= Len(s) /\ s[i] \in NameChars THEN NameEnd(s, i + 1) ELSE i

EvalFail == [ok |-> FALSE, v |-> FALSE, pos |-> 0]

\* Python's grammar on the text eval receives: or_expr := and_expr ("|"
\* and_expr)*, and_expr := atom ("&" atom)*, atom := True | False |
\* "(" or_expr ")". Any other text (a name that is no column of the eval
\* scope such as x, a comparison left unreplaced, unbalanced parentheses)
\* raises NameError or SyntaxError: ok is FALSE.
RECURSIVE EvalOr(_, _), EvalOrRest(_, _, _), EvalAnd(_, _), EvalAndRest(_, _, _),
          EvalAtom(_, _)
EvalAtom(s, i0) ==
    LET i == SkipBlanks(s, i0)
    IN  IF i > Len(s) THEN EvalFail
        ELSE IF s[i] = "("
             THEN LET r == EvalOr(s, i + 1)
                      j == SkipBlanks(s, r.pos)
                  IN  IF r.ok /\ j <= Len(s) /\ s[j] = ")"
                      THEN [ok |-> TRUE, v |-> r.v, pos |-> j + 1]
                      ELSE EvalFail
        ELSE LET e == NameEnd(s, i)
                 name == Slice(s, i, e - 1)
             IN  IF name = TrueStr THEN [ok |-> TRUE, v |-> TRUE, pos |-> e]
                 ELSE IF name = FalseStr THEN [ok |-> TRUE, v |-> FALSE, pos |-> e]
                 ELSE EvalFail

EvalAndRest(s, i0, acc) ==
    LET i == SkipBlanks(s, i0)
    IN  IF i <= Len(s) /\ s[i] = "&"
        THEN LET r == EvalAtom(s, i + 1)
             IN  IF r.ok THEN EvalAndRest(s, r.pos, acc /\ r.v) ELSE EvalFail
        ELSE [ok |-> TRUE, v |-> acc, pos |-> i]

EvalAnd(s, i) ==
    LET r == EvalAtom(s, i)
    IN  IF r.ok THEN EvalAndRest(s, r.pos, r.v) ELSE EvalFail

EvalOrRest(s, i0, acc) ==
    LET i == SkipBlanks(s, i0)
    IN  IF i <= Len(s) /\ s[i] = "|"
        THEN LET r == EvalAnd(s, i + 1)
             IN  IF r.ok THEN EvalOrRest(s, r.pos, acc \/ r.v) ELSE EvalFail
        ELSE [ok |-> TRUE, v |-> acc, pos |-> i]

EvalOr(s, i) ==
    LET r == EvalAnd(s, i)
    IN  IF r.ok THEN EvalOrRest(s, r.pos, r.v) ELSE EvalFail

\* eval(modified_conditional_string)
PyEval(s) ==
    LET r == EvalOr(s, 1)
    IN  IF r.ok /\ SkipBlanks(s, r.pos) > Len(s)
        THEN [ok |-> TRUE, v |-> r.v]
        ELSE [ok |-> FALSE, v |-> FALSE]

\* ------------------------------------------------------------------------
\* Row evaluator
\* ------------------------------------------------------------------------
OkMask(v) == [ok |-> TRUE, v |-> v]
RaisedMask == [ok |-> FALSE, v |-> <<>>]

\* a list of booleans from the outcome of each entry: raised when any entry
\* raised
Collect(results) ==
    IF \E i \in 1..Len(results) : ~results[i].ok THEN RaisedMask
    ELSE OkMask([i \in 1..Len(results) |-> results[i].v])

\* Searcher.applyOperator for a str cell and a str value: the comparisons
\* are those of str, "~=" reads column_value.unit, which a str lacks
\* (AttributeError), between and !between get a str where they require a
\* list (ValueError), like / in test containment
applyOperatorStr(operator, column_value, value) ==
    IF operator = <<"<">> THEN OkBool(StrLess(column_value, value))
    ELSE IF operator = <<">">> THEN OkBool(StrLess(value, column_value))
    ELSE IF operator = <<"<", "=">> THEN OkBool(~StrLess(value, column_value))
    ELSE IF operator = <<">", "=">> THEN OkBool(~StrLess(column_value, value))
    ELSE IF operator = <<"=">> THEN OkBool(column_value = value)
    ELSE IF operator = <<"=", "=">> THEN OkBool(column_value = value)
    ELSE IF operator = <<"!", "=">> THEN OkBool(column_value # value)
    ELSE IF ContainsStr(operator, <<"~", "=">>) THEN Raised
    ELSE IF operator = BetweenStr THEN Raised
    ELSE IF operator = NotBetweenStr THEN Raised
    ELSE IF operator = <<"l", "i", "k", "e">>
         THEN OkBool(ContainsStr(Lower(column_value), Lower(value)))
    ELSE IF operator = <<"!", "l", "i", "k", "e">>
         THEN OkBool(~ContainsStr(Lower(column_value), Lower(value)))
    ELSE IF operator = <<"!", "i", "n">> THEN OkBool(~ContainsStr(column_value, value))
    ELSE IF operator = <<"i", "n">> THEN OkBool(ContainsStr(column_value, value))
    ELSE Raised

\* a combination that takes any(column_bool_list) whatever the operator
CombineAlternativesAny(operator, column_bool_list) ==
    IF \E k \in 1..Len(column_bool_list) : ~column_bool_list[k].ok THEN Raised
    ELSE OkBool(\E k \in 1..Len(column_bool_list) : column_bool_list[k].v)

\* checkCondition, a cell that lists several values: all(column_bool_list)
\* for an operator with "!", any(column_bool_list) otherwise; an alternative
\* that raises raises
CombineAlternatives(operator, column_bool_list) ==
    IF \E k \in 1..Len(column_bool_list) : ~column_bool_list[k].ok THEN Raised
    ELSE IF Contains(operator, "!")
         THEN OkBool(\A k \in 1..Len(column_bool_list) : column_bool_list[k].v)
         ELSE OkBool(\E k \in 1..Len(column_bool_list) : column_bool_list[k].v)

\* the operator applied to every value of the split cell
AlternativeBooleans(operator, sub_column_values, value) ==
    [k \in 1..Len(sub_column_values) |->
        applyOperatorStr(operator, sub_column_values[k], value)]

\* checkCondition, the body of the loop over column_values for a str cell
StrCellBoolean(operator, column_value, value) ==
    IF Contains(column_value, "|")
    THEN CombineAlternatives(operator,
             AlternativeBooleans(operator, Split(column_value, "|"), value))
    ELSE applyOperatorStr(operator, column_value, value)

\* checkCondition, the loop over column_values of a leaf on a str column;
\* the value token is cast with str and so is taken as it is
StrColumnBooleans(table, column_name, operator, value) ==
    Collect([i \in 1..Len(table.rows) |->
                StrCellBoolean(operator, Cell(table.rows[i], column_name), value)])

\* checkCondition, the loop over column_values of a leaf. The cells of the
\* catalogue are numbers, for which the test '"|" in column_value' raises
\* TypeError, so every cell takes the except branch: coerce the cell, apply
\* the operator.
ColumnBooleans(table, column_name, operator, value) ==
    IF value.k = "err" THEN RaisedMask
    ELSE Collect([i \in 1..Len(table.rows) |->
                     applyOperator(operator,
                                   [n |-> Cell(table.rows[i], column_name),
                                    unit |-> ColumnUnit(column_name) # "None"],
                                   value)])

\* checkCondition, the leaf once it is split: the value is coerced to the
\* column's unit or type. ANGULAR_SEPARATION needs the coordinate columns,
\* which this catalogue lacks (KeyError), and so does any field that is no
\* column.
SplitLeafBooleans(table, split_conditional_string) ==
    IF ~split_conditional_string.ok THEN RaisedMask
    ELSE IF split_conditional_string.v[1] \notin ColumnNames THEN RaisedMask
    ELSE IF ColumnType(split_conditional_string.v[1]) = "str"
    THEN StrColumnBooleans(table, split_conditional_string.v[1],
                           split_conditional_string.v[2],
                           split_conditional_string.v[3])
    ELSE ColumnBooleans(table, split_conditional_string.v[1],
                        split_conditional_string.v[2],
                        CoerceValue(ColumnUnit(split_conditional_string.v[1]),
                                    split_conditional_string.v[3]))

\* checkCondition, the branch of a sub-condition that is a leaf
LeafBooleans(table, sub_condition) ==
    SplitLeafBooleans(table, safelySplitConditionalString(sub_condition))

\* checkCondition, the inner loop over condition_index for one table_index:
\* each sub-condition's text is replaced by str of its boolean for this row
RECURSIVE Substitute(_, _, _, _, _)
Substitute(text, sub_conditions, lists, table_index, condition_index) ==
    IF condition_index > Len(sub_conditions) THEN text
    ELSE Substitute(
            Replace(text, sub_conditions[condition_index],
                    BoolToStr(lists[condition_index].v[table_index])),
            sub_conditions, lists, table_index, condition_index + 1)

\* a loop over table_index that takes the booleans of the first sub-condition
TableBooleanListFirst(conditional_string, sub_conditions, sub_condition_boolean_lists) ==
    IF \E c \in 1..Len(sub_conditions) : ~sub_condition_boolean_lists[c].ok
    THEN RaisedMask
    ELSE IF Len(sub_conditions) = 0 THEN OkMask(<<>>)
    ELSE OkMask(sub_condition_boolean_lists[1].v)

\* checkCondition, the loop over table_index: one eval per entry of the first
\* boolean list; a shorter later list raises IndexError
TableBooleanList(conditional_string, sub_conditions, sub_condition_boolean_lists) ==
    IF \E c \in 1..Len(sub_conditions) : ~sub_condition_boolean_lists[c].ok
    THEN RaisedMask
    ELSE IF Len(sub_conditions) = 0 THEN OkMask(<<>>)
    ELSE IF \E c \in 1..Len(sub_conditions) :
                Len(sub_condition_boolean_lists[c].v)
                    < Len(sub_condition_boolean_lists[1].v)
    THEN RaisedMask
    ELSE Collect([table_index \in 1..Len(sub_condition_boolean_lists[1].v) |->
                     PyEval(Substitute(conditional_string, sub_conditions,
                                       sub_condition_boolean_lists, table_index, 1))])

\* Searcher.checkCondition; ok is FALSE where the code raises
RECURSIVE checkCondition(_, _)
\* checkCondition, the loop over the sub-conditions: a leaf is evaluated
\* cell by cell, a compound by a recursive call
SubConditionBooleanLists(table, sub_conditions) ==
    [c \in 1..Len(sub_conditions) |->
        IF Len(getSubConditions(sub_conditions[c]).v) = 1
        THEN LeafBooleans(table, sub_conditions[c])
        ELSE checkCondition(table, sub_conditions[c])]

checkCondition(table, conditional_string) ==
    IF ~getSubConditions(conditional_string).ok THEN RaisedMask
    ELSE TableBooleanList(conditional_string,
                          getSubConditions(conditional_string).v,
                          SubConditionBooleanLists(table,
                              getSubConditions(conditional_string).v))

\* ------------------------------------------------------------------------
\* Tables and data frames
\* ------------------------------------------------------------------------
\* result_table: none is TRUE for None; rows is the sequence of rows, each
\* [id, x, y] with id the row's position in the query result.
\* result_dataframe: none is TRUE for None; index is the sequence of row
\* labels (the ids); columns is FALSE once the frame has lost its columns.
NoneTable == [none |-> TRUE, rows |-> <<>>]
NoneDataframe == [none |-> TRUE, index |-> <<>>, columns |-> FALSE]

RECURSIVE SelectByMask(_, _)
SelectByMask(seq, boolean_list) ==
    IF seq = <<>> THEN <<>>
    ELSE (IF boolean_list[1] THEN <<seq[1]>> ELSE <<>>)
         \o SelectByMask(Tail(seq), Tail(boolean_list))

\* a row selection that reads the boolean list from its end: row i is kept
\* when entry Len+1-i is True
TableGetItemReversed(table, boolean_list) ==
    IF boolean_list = <<>> THEN [ok |-> TRUE, v |-> [none |-> FALSE, rows |-> <<>>]]
    ELSE IF Len(boolean_list) # Len(table.rows) THEN [ok |-> FALSE, v |-> table]
    ELSE [ok |-> TRUE,
          v |-> [none |-> FALSE,
                 rows |-> SelectByMask(table.rows,
                              [i \in 1..Len(boolean_list) |->
                                  boolean_list[Len(boolean_list) + 1 - i]])]]

\* astropy Table.__getitem__ with a list: the empty list gives the table
\* with no rows, a list of booleans selects the rows where it is True and
\* must have one entry per row
TableGetItem(table, boolean_list) ==
    IF boolean_list = <<>> THEN [ok |-> TRUE, v |-> [none |-> FALSE, rows |-> <<>>]]
    ELSE IF Len(boolean_list) # Len(table.rows) THEN [ok |-> FALSE, v |-> table]
    ELSE [ok |-> TRUE,
          v |-> [none |-> FALSE, rows |-> SelectByMask(table.rows, boolean_list)]]

\* pandas DataFrame.__getitem__ with a list: the empty list selects no
\* column and keeps every row label, a list of booleans selects rows and
\* must have one entry per row
DataframeGetItem(dataframe, boolean_list) ==
    IF boolean_list = <<>>
    THEN [ok |-> TRUE,
          v |-> [none |-> FALSE, index |-> dataframe.index, columns |-> FALSE]]
    ELSE IF Len(boolean_list) # Len(dataframe.index) THEN [ok |-> FALSE, v |-> dataframe]
    ELSE [ok |-> TRUE,
          v |-> [none |-> FALSE,
                 index |-> SelectByMask(dataframe.index, boolean_list),
                 columns |-> dataframe.columns]]

\* ------------------------------------------------------------------------
\* Predicate builder
\* ------------------------------------------------------------------------
\* A builder argument "values": a scalar n (isList FALSE) or the list l, of
\* plain ints (unit empty) or of astropy quantities with the unit named
Scalar(n) == [isList |-> FALSE, n |-> n, l |-> <<>>, unit |-> <<>>]
ListOf(l) == [isList |-> TRUE, n |-> 0, l |-> l, unit |-> <<>>]
Quantity(n, unit) == [isList |-> FALSE, n |-> n, l |-> <<>>, unit |-> unit]
QuantityList(l, unit) == [isList |-> TRUE, n |-> 0, l |-> l, unit |-> unit]

\* values[i] of a list
Element(values, i) ==
    [isList |-> FALSE, n |-> values.l[i], l |-> <<>>, unit |-> values.unit]

\* f"{value}" of an int ("5") or of a quantity, whose value is a float and
\* whose text ends with its unit ("5.0 arcsec")
FormatNumber(n, unit) ==
    IF unit = <<>> THEN IntToStr(n)
    ELSE IntToStr(n) \o <<".", "0", " ">> \o unit

\* f"{values[i]}".replace("'", ""): a number, or a list, whose quantities
\* were first replaced by their f"{value}" ("[5, 1]", "[5.0 arcsec, 1.0 arcsec]")
FormatValue(value) ==
    IF value.isList
    THEN <<"[">>
         \o Join([i \in 1..Len(value.l) |-> FormatNumber(value.l[i], value.unit)],
                 <<",", " ">>)
         \o <<"]">>
    ELSE FormatNumber(value.n, value.unit)

value_combine_exception_operators == {BetweenStr}

\* a builder that joins the alternatives with "&" whatever boolean operator
\* it is given
buildConditionalArgumentAnd(column_name, operator, values, boolean_operator) ==
    LET items == IF operator \in value_combine_exception_operators THEN <<values>>
                 ELSE IF ~values.isList THEN <<values>>
                 ELSE [i \in 1..Len(values.l) |-> Element(values, i)]
        conditional_args ==
            [i \in 1..Len(items) |->
                LP \o column_name \o SP \o operator \o SP \o FormatValue(items[i]) \o RP]
    IN  IF Len(conditional_args) = 1 THEN LP \o conditional_args[1] \o RP
        ELSE LP \o Join(conditional_args, <<"&">>) \o RP

\* a builder that emits the leaves in the reverse order of the values
buildConditionalArgumentReversed(column_name, operator, values, boolean_operator) ==
    LET items == IF operator \in value_combine_exception_operators THEN <<values>>
                 ELSE IF ~values.isList THEN <<values>>
                 ELSE [i \in 1..Len(values.l) |-> Element(values, Len(values.l) + 1 - i)]
        conditional_args ==
            [i \in 1..Len(items) |->
                LP \o column_name \o SP \o operator \o SP \o FormatValue(items[i]) \o RP]
    IN  IF Len(conditional_args) = 1 THEN LP \o conditional_args[1] \o RP
        ELSE LP \o Join(conditional_args, <<boolean_operator>>) \o RP

\* Searcher.buildConditionalArgument
buildConditionalArgument(column_name, operator, values, boolean_operator) ==
    LET items == IF operator \in value_combine_exception_operators THEN <<values>>
                 ELSE IF ~values.isList THEN <<values>>
                 ELSE [i \in 1..Len(values.l) |-> Element(values, i)]
        conditional_args ==
            [i \in 1..Len(items) |->
                LP \o column_name \o SP \o operator \o SP \o FormatValue(items[i]) \o RP]
    IN  IF Len(conditional_args) = 1 THEN LP \o conditional_args[1] \o RP
        ELSE LP \o Join(conditional_args, <<boolean_operator>>) \o RP

\* ------------------------------------------------------------------------
\* Required fields
\* ------------------------------------------------------------------------
\* the default_fields of getRequiredVotableFields, as written
default_fields ==
    {<<"M", "A", "I", "N", "_", "I", "D">>,
     <<"R", "A">>,
     <<"D", "E", "C">>,
     <<"R", "A", "_", "P", "R", "E", "C">>,
     <<"D", "E", "C", "_", "P", "R", "E", "C">>,
     <<"C", "O", "O", "_", "E", "R", "R", "_", "M", "A", "J", "A">>,
     <<"C", "O", "O", "_", "E", "R", "R", "_", "M", "I", "N", "A">>,
     <<"C", "O", "O", "_", "E", "R", "R", "_", "A", "N", "G", "L", "E">>,
     <<"C", "O", "O", "_", "Q", "U", "A", "L">>,
     <<"C", "O", "O", "_", "W", "A", "V", "E", "L", "E", "N", "G", "T", "H">>,
     <<"C", "O", "O", "_", "B", "I", "B", "C", "O", "D", "E">>,
     <<"R", "A", "_", "d">>,
     <<"D", "E", "C", "_", "d">>,
     <<"I", "D", "S">>,
     <<"S", "C", "R", "I", "P", "T", "_", "N", "U", "M", "B", "E", "R", "_", "I", "D">>,
     <<"O", "T", "Y", "P", "E", "S">>}

\* getRequiredVotableFields, the loop over the sub-conditions of all the
\* conditional strings from index i: the column names, or the leaf that
\* cannot be split
AddColumnName(split_conditional_string, rest) ==
    IF ~split_conditional_string.ok \/ ~rest.ok THEN [ok |-> FALSE, v |-> {}]
    ELSE IF split_conditional_string.v[1] # AngularSeparationStr
         THEN [ok |-> TRUE, v |-> {split_conditional_string.v[1]} \cup rest.v]
         ELSE rest

RECURSIVE ColumnNamesOf(_, _)
ColumnNamesOf(all_sub_conditions, i) ==
    IF i > Len(all_sub_conditions) THEN [ok |-> TRUE, v |-> {}]
    ELSE AddColumnName(safelySplitConditionalString(all_sub_conditions[i]),
                       ColumnNamesOf(all_sub_conditions, i + 1))

\* getRequiredVotableFields, the sub-conditions of all the conditional
\* strings from index i on
AddSubConditions(here, rest) ==
    IF ~here.ok \/ ~rest.ok THEN [ok |-> FALSE, v |-> <<>>]
    ELSE [ok |-> TRUE, v |-> here.v \o rest.v]

RECURSIVE AllSubConditionsOf(_, _)
AllSubConditionsOf(conditional_strings, i) ==
    IF i > Len(conditional_strings) THEN [ok |-> TRUE, v |-> <<>>]
    ELSE AddSubConditions(getAllSubConditions(conditional_strings[i]),
                          AllSubConditionsOf(conditional_strings, i + 1))

\* getRequiredVotableFields, the second loop: the lower-case names that are
\* no default field
VotableFields(column_names) ==
    IF ~column_names.ok THEN [ok |-> FALSE, v |-> {}]
    ELSE [ok |-> TRUE,
          v |-> {Lower(c) : c \in
                    {d \in column_names.v :
                        Lower(d) \notin {Lower(f) : f \in default_fields}}}]

\* getRequiredVotableFields, the first loop over the sub-conditions found
ColumnNamesOfAll(all_sub_conditions) ==
    IF all_sub_conditions.ok THEN ColumnNamesOf(all_sub_conditions.v, 1)
    ELSE [ok |-> FALSE, v |-> {}]

\* SimbadSearcher.getRequiredVotableFields on a list of conditional strings
\* (a str is first wrapped in a list); the returned list has no duplicates
\* and its order is that of a Python set, so it is modelled as a set
getRequiredVotableFields(conditional_strings) ==
    VotableFields(ColumnNamesOfAll(AllSubConditionsOf(conditional_strings, 1)))

\* ------------------------------------------------------------------------
\* applyQueryCriteria
\* ------------------------------------------------------------------------
\* The conditions argument: kind "None", "str" (list holds the one string),
\* "list" (a list or tuple of strings) or "other" (any other type)
NoConditions == [kind |-> "None", list |-> <<>>]

\* applyQueryCriteria, the loop over the conditions: the outcome is what the
\* call stores (table, dataframe), whether it raised, and the boolean lists
\* checkCondition returned, in call order
RECURSIVE ApplyLoop(_, _, _, _)
\* the loop body after the two selections
ApplyFiltered(modified_table, modified_dataframe, conditions, boolean_lists, dataframe, table) ==
    IF ~dataframe.ok \/ ~table.ok
    THEN [raised |-> TRUE, table |-> modified_table,
          dataframe |-> modified_dataframe, boolean_lists |-> boolean_lists]
    ELSE ApplyLoop(table.v, dataframe.v, Tail(conditions), boolean_lists)

\* a loop body that skips a condition whose evaluation raised
ApplyBooleanListSkip(modified_table, modified_dataframe, conditions, boolean_lists, boolean_list) ==
    IF ~boolean_list.ok
    THEN ApplyLoop(modified_table, modified_dataframe, Tail(conditions),
                   Append(boolean_lists, boolean_list))
    ELSE ApplyFiltered(modified_table, modified_dataframe, conditions,
                       Append(boolean_lists, boolean_list),
                       DataframeGetItem(modified_dataframe, boolean_list.v),
                       TableGetItem(modified_table, boolean_list.v))

\* the loop body after checkCondition: the frame, then the table, is indexed
\* with the boolean list
ApplyBooleanList(modified_table, modified_dataframe, conditions, boolean_lists, boolean_list) ==
    IF ~boolean_list.ok
    THEN [raised |-> TRUE, table |-> modified_table,
          dataframe |-> modified_dataframe,
          boolean_lists |-> Append(boolean_lists, boolean_list)]
    ELSE ApplyFiltered(modified_table, modified_dataframe, conditions,
                       Append(boolean_lists, boolean_list),
                       DataframeGetItem(modified_dataframe, boolean_list.v),
                       TableGetItem(modified_table, boolean_list.v))

\* a loop that evaluates every condition, also against a table without rows
ApplyLoopAlways(modified_result_table, modified_result_dataframe, conditions, boolean_lists) ==
    IF conditions = <<>>
    THEN [raised |-> FALSE, table |-> modified_result_table,
          dataframe |-> modified_result_dataframe, boolean_lists |-> boolean_lists]
    ELSE ApplyBooleanList(modified_result_table, modified_result_dataframe,
                          conditions, boolean_lists,
                          checkCondition(modified_result_table, conditions[1]))

\* applyQueryCriteria, the loop over the conditions; boolean_lists collects
\* what checkCondition returned
ApplyLoop(modified_result_table, modified_result_dataframe, conditions, boolean_lists) ==
    IF conditions = <<>> \/ Len(modified_result_table.rows) = 0
    THEN [raised |-> FALSE, table |-> modified_result_table,
          dataframe |-> modified_result_dataframe, boolean_lists |-> boolean_lists]
    ELSE ApplyBooleanList(modified_result_table, modified_result_dataframe,
                          conditions, boolean_lists,
                          checkCondition(modified_result_table, conditions[1]))

\* an end of the call that stores the loop's table and frame even when the
\* loop raised
StoreLoopResultPartial(table, dataframe, out) ==
    [raised |-> out.raised,
     returned |-> IF out.raised THEN NoneTable ELSE out.table,
     table |-> out.table, dataframe |-> out.dataframe,
     boolean_lists |-> out.boolean_lists]

\* applyQueryCriteria after its loop: the loop's table and frame are stored
\* and the table returned; a raise leaves the stored ones as they were
StoreLoopResult(table, dataframe, out) ==
    IF out.raised
    THEN [raised |-> TRUE, returned |-> NoneTable, table |-> table,
          dataframe |-> dataframe, boolean_lists |-> out.boolean_lists]
    ELSE [raised |-> FALSE, returned |-> out.table, table |-> out.table,
          dataframe |-> out.dataframe, boolean_lists |-> out.boolean_lists]

\* the loop's table is returned and nothing is stored
KeepStored(table, dataframe, out) ==
    IF out.raised
    THEN [raised |-> TRUE, returned |-> NoneTable, table |-> table,
          dataframe |-> dataframe, boolean_lists |-> out.boolean_lists]
    ELSE [raised |-> FALSE, returned |-> out.table, table |-> table,
          dataframe |-> dataframe, boolean_lists |-> out.boolean_lists]

\* an applyQueryCriteria that returns the filtered table and leaves the
\* stored table and frame as they were
applyQueryCriteriaNoStore(table, dataframe, conditions) ==
    IF table.none \/ Len(table.rows) = 0
    THEN [raised |-> FALSE, returned |-> table, table |-> table,
          dataframe |-> dataframe, boolean_lists |-> <<>>]
    ELSE IF conditions.kind = "None"
    THEN [raised |-> FALSE, returned |-> table, table |-> table,
          dataframe |-> dataframe, boolean_lists |-> <<>>]
    ELSE IF conditions.kind = "other"
    THEN [raised |-> TRUE, returned |-> NoneTable, table |-> table,
          dataframe |-> dataframe, boolean_lists |-> <<>>]
    ELSE KeepStored(table, dataframe,
                    ApplyLoop(table, dataframe, conditions.list, <<>>))

\* an applyQueryCriteria without the early return, whose loop evaluates the
\* conditions against a table without rows as well
applyQueryCriteriaEvaluatesEmpty(table, dataframe, conditions) ==
    IF table.none THEN [raised |-> FALSE, returned |-> table, table |-> table,
                        dataframe |-> dataframe, boolean_lists |-> <<>>]
    ELSE IF conditions.kind = "None"
    THEN [raised |-> FALSE, returned |-> table, table |-> table,
          dataframe |-> dataframe, boolean_lists |-> <<>>]
    ELSE IF conditions.kind = "other"
    THEN [raised |-> TRUE, returned |-> NoneTable, table |-> table,
          dataframe |-> dataframe, boolean_lists |-> <<>>]
    ELSE StoreLoopResult(table, dataframe,
                         ApplyLoopAlways(table, dataframe, conditions.list, <<>>))

\* an applyQueryCriteria for which no conditions select no rows
applyQueryCriteriaNoneSelectsNothing(table, dataframe, conditions) ==
    IF table.none \/ Len(table.rows) = 0
    THEN [raised |-> FALSE, returned |-> table, table |-> table,
          dataframe |-> dataframe, boolean_lists |-> <<>>]
    ELSE IF conditions.kind = "None" \/ conditions.list = <<>>
    THEN [raised |-> FALSE, returned |-> [none |-> FALSE, rows |-> <<>>],
          table |-> [none |-> FALSE, rows |-> <<>>],
          dataframe |-> dataframe, boolean_lists |-> <<>>]
    ELSE IF conditions.kind = "other"
    THEN [raised |-> TRUE, returned |-> NoneTable, table |-> table,
          dataframe |-> dataframe, boolean_lists |-> <<>>]
    ELSE StoreLoopResult(table, dataframe,
                         ApplyLoop(table, dataframe, conditions.list, <<>>))

\* Searcher.applyQueryCriteria as a function of the stored table and frame:
\* raised, the value returned, and the table and frame stored afterwards
applyQueryCriteriaOutcome(table, dataframe, conditions) ==
    IF table.none \/ Len(table.rows) = 0
    THEN [raised |-> FALSE, returned |-> table, table |-> table,
          dataframe |-> dataframe, boolean_lists |-> <<>>]
    ELSE IF conditions.kind = "None"
    THEN [raised |-> FALSE, returned |-> table, table |-> table,
          dataframe |-> dataframe, boolean_lists |-> <<>>]
    ELSE IF conditions.kind = "other"
    THEN [raised |-> TRUE, returned |-> NoneTable, table |-> table,
          dataframe |-> dataframe, boolean_lists |-> <<>>]
    ELSE StoreLoopResult(table, dataframe,
                         ApplyLoop(table, dataframe, conditions.list, <<>>))

\* ------------------------------------------------------------------------
\* The searcher and its caller
\* ------------------------------------------------------------------------
VARIABLES
    catalogue,          \* the rows the remote catalogue returns for this search
    request,            \* the arguments the caller has for the predicate builder
    result_table,       \* Searcher.result_table
    result_dataframe,   \* Searcher.result_dataframe
    expr,               \* the expression the caller currently holds
    ret                 \* the last call: its arguments and its outcome; again
                        \* is TRUE when the call before it was the same
                        \* applyQueryCriteria call and returned

vars == <<catalogue, request, result_table, result_dataframe, expr, ret>>

\* --- expression texts -----------------------------------------------------
Leaf(field, operator, value) == field \o SP \o operator \o SP \o value
Paren(s) == LP \o s \o RP
AndOf(a, b) == a \o <<"&">> \o b
OrOf(a, b) == a \o <<"|">> \o b

X == <<"x">>
Y == <<"y">>
Z == <<"z">>
GT == <<">">>
LT == <<"<">>
EQ == <<"=">>

\* "(x > 1)&(y < 5)" and its wrapped form
XAndY == AndOf(Paren(Leaf(X, GT, <<"1">>)), Paren(Leaf(Y, LT, <<"5">>)))
XAndYWrapped == Paren(XAndY)

\* "(x > 1)&((y < 5)|(z = 2))" and its wrapped form
XAndYOrZ ==
    AndOf(Paren(Leaf(X, GT, <<"1">>)),
          Paren(OrOf(Paren(Leaf(Y, LT, <<"5">>)), Paren(Leaf(Z, EQ, <<"2">>)))))
XAndYOrZWrapped == Paren(XAndYOrZ)

\* "()"
EmptyExpression == <<"(", ")">>

\* the bare leaves the caller writes by hand
BareLeaves ==
    {Leaf(X, op, <<"1">>) : op \in {GT, LT}} \cup {Leaf(Y, op, <<"5">>) : op \in {GT, LT}}

\* the hand-written expressions of a session
Literals ==
    BareLeaves \cup {Paren(l) : l \in BareLeaves}
    \cup {XAndY, XAndYWrapped, XAndYOrZ, XAndYOrZWrapped, EmptyExpression}

\* --- catalogues -------------------------------------------------------------
YValues == {3, 9}

\* the object types of the rows of a session
StarOtypes == <<"A", "|", "B">>

RowPool == {[x |-> a, y |-> b, OTYPES |-> StarOtypes] : a \in 0..MaxVal, b \in YValues}

\* the catalogue rows in order: ids are positions
WithIds(rows) ==
    [i \in 1..Len(rows) |->
        [id |-> i, x |-> rows[i].x, y |-> rows[i].y, OTYPES |-> rows[i].OTYPES]]

\* the rows {x:2,y:3}, {x:0,y:3}, {x:2,y:9}
ExampleRows ==
    <<[x |-> 2, y |-> 3, OTYPES |-> StarOtypes], [x |-> 0, y |-> 3, OTYPES |-> StarOtypes],
      [x |-> 2, y |-> 9, OTYPES |-> StarOtypes]>>

\* the order in which the catalogue lists its rows
RowBefore(r, s) == r.x < s.x \/ (r.x = s.x /\ r.y < s.y)

\* every selection of at most MaxRows rows of the pool, in catalogue order
Selections ==
    UNION {{rows \in [1..n -> RowPool] :
                \A i \in 1..n, j \in 1..n : i < j => RowBefore(rows[i], rows[j])} :
           n \in 0..MaxRows}

SessionCatalogues == {WithIds(rows) : rows \in Selections} \cup {WithIds(ExampleRows)}

\* --- builder requests ---------------------------------------------------------
Request(column_name, operator, values, boolean_operator) ==
    [column_name |-> column_name, operator |-> operator, values |-> values,
     boolean_operator |-> boolean_operator]

SessionRequests == {Request(X, EQ, ListOf(<<1, 2>>), "|")}

NoExpr == [source |-> "none", text |-> <<>>]

NoCall ==
    [op |-> "none", raised |-> FALSE, conditions |-> NoConditions,
     before |-> NoneTable, before_dataframe |-> NoneDataframe,
     returned |-> NoneTable, boolean_lists |-> <<>>, fields |-> {},
     sub_conditions |-> <<>>, result |-> FALSE, again |-> FALSE]

Init ==
    /\ catalogue \in SessionCatalogues
    /\ request \in SessionRequests
    /\ result_table = NoneTable
    /\ result_dataframe = NoneDataframe
    /\ expr = NoExpr
    /\ ret = NoCall

\* getQuery: the query result is stored as table and as data frame (an
\* absent result as the empty Table() and DataFrame())
getQuery ==
    /\ result_table' = [none |-> FALSE, rows |-> catalogue]
    /\ result_dataframe' =
           [none |-> FALSE,
            index |-> [i \in 1..Len(catalogue) |-> catalogue[i].id],
            columns |-> Len(catalogue) > 0]
    /\ ret' = [NoCall EXCEPT !.op = "getQuery",
                             !.returned = [none |-> FALSE, rows |-> catalogue]]
    /\ UNCHANGED <<catalogue, request, expr>>

\* the caller writes an expression by hand
writeExpression ==
    /\ \E text \in Literals : expr' = [source |-> "literal", text |-> text]
    /\ ret' = [NoCall EXCEPT !.op = "writeExpression"]
    /\ UNCHANGED <<catalogue, request, result_table, result_dataframe>>

\* the caller calls buildConditionalArgument with its request
build ==
    /\ expr' = [source |-> "builder",
                text |-> buildConditionalArgument(request.column_name, request.operator,
                                                  request.values, request.boolean_operator)]
    /\ ret' = [NoCall EXCEPT !.op = "buildConditionalArgument"]
    /\ UNCHANGED <<catalogue, request, result_table, result_dataframe>>

\* applyQueryCriteria(conditions)
applyQueryCriteria(conditions) ==
    \E out \in {applyQueryCriteriaOutcome(result_table, result_dataframe, conditions)} :
        /\ result_table' = out.table
        /\ result_dataframe' = out.dataframe
        /\ ret' = [NoCall EXCEPT !.op = "applyQueryCriteria",
                                 !.raised = out.raised,
                                 !.conditions = conditions,
                                 !.before = result_table,
                                 !.before_dataframe = result_dataframe,
                                 !.returned = out.returned,
                                 !.boolean_lists = out.boolean_lists,
                                 !.again = /\ ret.op = "applyQueryCriteria"
                                           /\ ~ret.raised
                                           /\ ret.conditions = conditions]
        /\ UNCHANGED <<catalogue, request, expr>>

\* applyQueryCriteria with the caller's expression as a str
applyString ==
    /\ expr.source # "none"
    /\ applyQueryCriteria([kind |-> "str", list |-> <<expr.text>>])

\* applyQueryCriteria with None, with an empty or one-element list, or with
\* an argument of another type
applyOther ==
    \E conditions \in
        {NoConditions, [kind |-> "list", list |-> <<>>], [kind |-> "other", list |-> <<>>]}
        \cup (IF expr.source = "none" THEN {}
              ELSE {[kind |-> "list", list |-> <<expr.text>>]}) :
        applyQueryCriteria(conditions)

\* getRequiredVotableFields(expr)
requiredFields ==
    /\ expr.source # "none"
    /\ \E out \in {getRequiredVotableFields(<<expr.text>>)} :
           ret' = [NoCall EXCEPT !.op = "getRequiredVotableFields",
                                 !.raised = ~out.ok,
                                 !.conditions = [kind |-> "str", list |-> <<expr.text>>],
                                 !.before = result_table,
                                 !.before_dataframe = result_dataframe,
                                 !.fields = out.v]
    /\ UNCHANGED <<catalogue, request, result_table, result_dataframe, expr>>

Next ==
    \/ getQuery
    \/ writeExpression
    \/ build
    \/ applyString
    \/ applyOther
    \/ requiredFields

Spec == Init /\ [][Next]_vars

\* ------------------------------------------------------------------------
\* The builder's domain: every request over the operators and values of the
\* model, against catalogues of one row (and the rows x=1, x=4)
\* ------------------------------------------------------------------------
LE == <<"<", "=">>
GE == <<">", "=">>
EQEQ == <<"=", "=">>
NE == <<"!", "=">>

ComparisonOperators == {LT, GT, LE, GE, EQ, EQEQ, NE}

ValueLists == UNION {[1..n -> 0..MaxVal] : n \in 1..MaxValues}

BuildValues == {Scalar(v) : v \in 0..MaxVal} \cup {ListOf(l) : l \in ValueLists}

\* buildLeaf("x", "=", [1,2,3]), ("x", "between", [5,1]), ("x", "!between", [1,5])
ExampleRequests ==
    {Request(X, EQ, ListOf(<<1, 2, 3>>), "|"),
     Request(X, BetweenStr, ListOf(<<5, 1>>), "|"),
     Request(X, NotBetweenStr, ListOf(<<1, 5>>), "|")}

\* requests with the boolean operator "&"
ConjunctiveRequests ==
    {Request(c, op, ListOf(l), "&") : c \in {X, Y}, op \in {GT, NE}, l \in ValueLists}

BuildRequests ==
    {Request(c, op, v, "|") :
        c \in {X, Y},
        op \in ComparisonOperators \cup {BetweenStr, NotBetweenStr},
        v \in BuildValues}
    \cup ConjunctiveRequests
    \cup ExampleRequests

\* a table containing rows with x = 1 and x = 4
ExampleRowsX ==
    <<[x |-> 1, y |-> 3, OTYPES |-> StarOtypes], [x |-> 4, y |-> 3, OTYPES |-> StarOtypes]>>

BuildCatalogues ==
    {WithIds(<<r>>) : r \in RowPool} \cup {WithIds(ExampleRowsX)}

InitBuild ==
    /\ catalogue \in BuildCatalogues
    /\ request \in BuildRequests
    /\ result_table = NoneTable
    /\ result_dataframe = NoneDataframe
    /\ expr = NoExpr
    /\ ret = NoCall

NextBuild ==
    \/ getQuery
    \/ build
    \/ applyString

SpecBuild == InitBuild /\ [][NextBuild]_vars

\* ------------------------------------------------------------------------
\* Combining expressions
\* ------------------------------------------------------------------------
MaxArgs == 3

\* a combiner that wraps a single expression too
combineConditionalArgumentsWrapsOne(conditional_args, boolean_operator) ==
    IF boolean_operator \notin boolean_operators THEN [ok |-> FALSE, v |-> <<>>]
    ELSE [ok |-> TRUE,
          v |-> LP \o Join(conditional_args, <<boolean_operator>>) \o RP]

\* a combiner that always joins with "|"
combineConditionalArgumentsOr(conditional_args, boolean_operator) ==
    IF boolean_operator \notin boolean_operators THEN [ok |-> FALSE, v |-> <<>>]
    ELSE IF Len(conditional_args) = 1 THEN [ok |-> TRUE, v |-> conditional_args[1]]
    ELSE [ok |-> TRUE, v |-> LP \o Join(conditional_args, <<"|">>) \o RP]

\* Searcher.combineConditionalArguments(*conditional_args, boolean_operator)
combineConditionalArguments(conditional_args, boolean_operator) ==
    IF boolean_operator \notin boolean_operators THEN [ok |-> FALSE, v |-> <<>>]
    ELSE IF Len(conditional_args) = 1 THEN [ok |-> TRUE, v |-> conditional_args[1]]
    ELSE [ok |-> TRUE,
          v |-> LP \o Join(conditional_args, <<boolean_operator>>) \o RP]

\* the requests of a caller that combines: scalar values, and a boolean
\* operator that may be none of Searcher.boolean_operators
CombineRequests ==
    {Request(c, op, Scalar(v), b) :
        c \in {X, Y}, op \in {GT, LT}, v \in {1, 2}, b \in {"&", "|", "^"}}

\* the expressions a caller has at hand: two written ones and the built one
ExpressionsAtHand ==
    {Paren(Paren(Leaf(X, GT, <<"1">>))), Paren(Paren(Leaf(Y, LT, <<"5">>)))}
    \cup (IF expr.source = "builder" THEN {expr.text} ELSE {})

InitCombine ==
    /\ catalogue \in {WithIds(ExampleRowsX)}
    /\ request \in CombineRequests
    /\ result_table = NoneTable
    /\ result_dataframe = NoneDataframe
    /\ expr = NoExpr
    /\ ret = NoCall

\* the caller combines up to MaxArgs expressions with its boolean operator
combine ==
    /\ \E n \in 0..MaxArgs : \E conditional_args \in [1..n -> ExpressionsAtHand] :
         \E out \in {combineConditionalArguments(conditional_args, request.boolean_operator)} :
            /\ expr' = IF out.ok THEN [source |-> "combine", text |-> out.v] ELSE expr
            /\ ret' = [NoCall EXCEPT !.op = "combineConditionalArguments",
                                     !.raised = ~out.ok,
                                     !.conditions = [kind |-> "list",
                                                     list |-> conditional_args]]
    /\ UNCHANGED <<catalogue, request, result_table, result_dataframe>>

NextCombine ==
    \/ build
    \/ combine
    \/ requiredFields

SpecCombine == InitCombine /\ [][NextCombine]_vars

\* ------------------------------------------------------------------------
\* Nested expressions: the caller's request is an expression tree, written
\* out fully parenthesized and applied
\* ------------------------------------------------------------------------
MaxDepth == 3

\* a leaf "(column_name operator value)" and a compound "(child op child ...)"
LeafTree(column_name, operator, value) ==
    [op |-> "leaf", column_name |-> column_name, operator |-> operator,
     value |-> value, children |-> <<>>]
Node(op, children) ==
    [op |-> op, column_name |-> <<>>, operator |-> <<>>, value |-> 0,
     children |-> children]

\* the text of a tree: every leaf and every compound in its own parentheses
RECURSIVE Render(_)
Render(t) ==
    IF t.op = "leaf"
    THEN Paren(Leaf(t.column_name, t.operator, IntToStr(t.value)))
    ELSE Paren(Join([i \in 1..Len(t.children) |-> Render(t.children[i])], <<t.op>>))

RECURSIVE LeavesOf(_)
LeavesOf(t) ==
    IF t.op = "leaf" THEN {t}
    ELSE UNION {LeavesOf(t.children[i]) : i \in 1..Len(t.children)}

\* the leaves (x > 1), (y < 5), (x < 3), (x != 2)
TreeLeaves ==
    {LeafTree(X, GT, 1), LeafTree(Y, LT, 5), LeafTree(X, LT, 3), LeafTree(X, NE, 2)}

\* the compounds of two children of the given sets that share no leaf
PairsOf(lefts, rights) ==
    {Node(p[1], <<p[2], p[3]>>) :
        p \in {q \in {"&", "|"} \X lefts \X rights :
                  LeavesOf(q[2]) \cap LeavesOf(q[3]) = {}}}

\* the compounds of three different leaves
TriplesOf(leaves) ==
    {Node(p[1], <<p[2], p[3], p[4]>>) :
        p \in {q \in {"&", "|"} \X leaves \X leaves \X leaves :
                  q[2] # q[3] /\ q[2] # q[4] /\ q[3] # q[4]}}

\* the trees of pairwise distinct leaves nested at most d deep
RECURSIVE TreesUpTo(_)
TreesUpTo(d) ==
    IF d = 0 THEN TreeLeaves
    ELSE TreesUpTo(d - 1) \cup PairsOf(TreesUpTo(d - 1), TreesUpTo(d - 1))

NestedTrees == (TreesUpTo(MaxDepth) \cup TriplesOf(TreeLeaves)) \ TreeLeaves

\* the rows {x:3,y:9}, {x:0,y:9}, {x:3,y:3}: with ExampleRows every
\* combination of leaf values a row can give
ExampleRowsNested ==
    <<[x |-> 3, y |-> 9, OTYPES |-> StarOtypes], [x |-> 0, y |-> 9, OTYPES |-> StarOtypes],
      [x |-> 3, y |-> 3, OTYPES |-> StarOtypes]>>

NestedCatalogues == {WithIds(ExampleRows), WithIds(ExampleRowsNested)}

InitNested ==
    /\ catalogue \in NestedCatalogues
    /\ request \in NestedTrees
    /\ result_table = NoneTable
    /\ result_dataframe = NoneDataframe
    /\ expr = NoExpr
    /\ ret = NoCall

\* the caller writes its tree out as an expression
writeNested ==
    /\ expr' = [source |-> "literal", text |-> Render(request)]
    /\ ret' = [NoCall EXCEPT !.op = "writeExpression"]
    /\ UNCHANGED <<catalogue, request, result_table, result_dataframe>>

NextNested ==
    \/ getQuery
    \/ writeNested
    \/ applyString

SpecNested == InitNested /\ [][NextNested]_vars

\* ------------------------------------------------------------------------
\* Leaves of an expression: the caller's tree is written out, with or
\* without the outer parentheses, and scanned by getAllSubConditions
\* ------------------------------------------------------------------------
\* the text of a compound without its outer pair of parentheses
RenderUnwrapped(t) ==
    Join([i \in 1..Len(t.children) |-> Render(t.children[i])], <<t.op>>)

InitLeaves ==
    /\ catalogue \in {WithIds(ExampleRows)}
    /\ request \in NestedTrees
    /\ result_table = NoneTable
    /\ result_dataframe = NoneDataframe
    /\ expr = NoExpr
    /\ ret = NoCall

\* the caller writes its tree out without the outer parentheses
writeUnwrapped ==
    /\ expr' = [source |-> "literal", text |-> RenderUnwrapped(request)]
    /\ ret' = [NoCall EXCEPT !.op = "writeExpression"]
    /\ UNCHANGED <<catalogue, request, result_table, result_dataframe>>

\* getAllSubConditions(expr)
allSubConditions ==
    /\ expr.source # "none"
    /\ \E out \in {getAllSubConditions(expr.text)} :
           ret' = [NoCall EXCEPT !.op = "getAllSubConditions",
                                 !.raised = ~out.ok,
                                 !.conditions = [kind |-> "str", list |-> <<expr.text>>],
                                 !.sub_conditions = out.v]
    /\ UNCHANGED <<catalogue, request, result_table, result_dataframe, expr>>

\* getSubConditions(expr)
subConditions ==
    /\ expr.source # "none"
    /\ \E out \in {getSubConditions(expr.text)} :
           ret' = [NoCall EXCEPT !.op = "getSubConditions",
                                 !.raised = ~out.ok,
                                 !.conditions = [kind |-> "str", list |-> <<expr.text>>],
                                 !.sub_conditions = out.v]
    /\ UNCHANGED <<catalogue, request, result_table, result_dataframe, expr>>

NextLeaves ==
    \/ writeNested
    \/ writeUnwrapped
    \/ allSubConditions
    \/ subConditions
    \/ requiredFields

SpecLeaves == InitLeaves /\ [][NextLeaves]_vars

\* ------------------------------------------------------------------------
\* Operators: the caller's request is one call of applyOperator
\* ------------------------------------------------------------------------
MaxBounds == 3

\* the operands: a number, or a list of at most MaxBounds numbers
Operands ==
    {[k |-> "num", n |-> n, l |-> <<>>] : n \in 0..MaxVal}
    \cup UNION {{[k |-> "list", n |-> 0, l |-> l] : l \in [1..m -> 0..MaxVal]} :
                m \in 0..MaxBounds}

OperatorCalls ==
    [operator : {BetweenStr, NotBetweenStr, GT},
     column_value : [n : 0..MaxVal, unit : BOOLEAN],
     value : Operands]

InitOperator ==
    /\ catalogue \in {WithIds(ExampleRows)}
    /\ request \in OperatorCalls
    /\ result_table = NoneTable
    /\ result_dataframe = NoneDataframe
    /\ expr = NoExpr
    /\ ret = NoCall

\* applyOperator(operator, column_value, value) with the caller's request
callApplyOperator ==
    /\ \E out \in {applyOperator(request.operator, request.column_value, request.value)} :
           ret' = [NoCall EXCEPT !.op = "applyOperator",
                                 !.raised = ~out.ok,
                                 !.result = out.v]
    /\ UNCHANGED <<catalogue, request, result_table, result_dataframe, expr>>

NextOperator ==
    \/ callApplyOperator
    \/ getQuery

SpecOperator == InitOperator /\ [][NextOperator]_vars

\* ------------------------------------------------------------------------
\* Ranges: the caller's request is a leaf with a bracketed value token,
\* written by hand and applied
\* ------------------------------------------------------------------------
\* "[a,b]", or "[a, b]" with a blank after the comma
RangeToken(a, b, blank) ==
    <<"[">> \o IntToStr(a) \o <<",">> \o (IF blank THEN SP ELSE <<>>) \o IntToStr(b)
    \o <<"]">>

RangeRequests ==
    [column_name : {X, Y}, operator : {BetweenStr, NotBetweenStr},
     a : 0..MaxVal, b : 0..MaxVal, blank : BOOLEAN]

InitRange ==
    /\ catalogue \in BuildCatalogues
    /\ request \in RangeRequests
    /\ result_table = NoneTable
    /\ result_dataframe = NoneDataframe
    /\ expr = NoExpr
    /\ ret = NoCall

\* the caller writes the leaf "(column_name operator [a,b])"
writeRange ==
    /\ expr' = [source |-> "literal",
                text |-> Paren(Leaf(request.column_name, request.operator,
                                    RangeToken(request.a, request.b, request.blank)))]
    /\ ret' = [NoCall EXCEPT !.op = "writeExpression"]
    /\ UNCHANGED <<catalogue, request, result_table, result_dataframe>>

NextRange ==
    \/ getQuery
    \/ writeRange
    \/ applyString

SpecRange == InitRange /\ [][NextRange]_vars

\* ------------------------------------------------------------------------
\* Leaf texts: the caller's request is a leaf of some tokens inside some
\* layers of parentheses, written out and split
\* ------------------------------------------------------------------------
MaxTokens == 4
MaxLayers == 3

\* the tokens of a leaf: a field, two operators, a number
LeafTokens == {X, GT, BetweenStr, <<"1">>}

\* the text of a leaf: its tokens separated by single blanks, in layers
RECURSIVE Wrapped(_, _)
Wrapped(text, layers) ==
    IF layers = 0 THEN text ELSE Wrapped(Paren(text), layers - 1)

LeafRequests ==
    UNION {[tokens : [1..n -> LeafTokens], layers : 0..MaxLayers] : n \in 1..MaxTokens}

InitSplit ==
    /\ catalogue \in {WithIds(ExampleRows)}
    /\ request \in LeafRequests
    /\ result_table = NoneTable
    /\ result_dataframe = NoneDataframe
    /\ expr = NoExpr
    /\ ret = NoCall

\* the caller writes the leaf of its request
writeLeaf ==
    /\ expr' = [source |-> "literal",
                text |-> Wrapped(Join(request.tokens, SP), request.layers)]
    /\ ret' = [NoCall EXCEPT !.op = "writeExpression"]
    /\ UNCHANGED <<catalogue, request, result_table, result_dataframe>>

\* safelySplitConditionalString(expr)
splitLeaf ==
    /\ expr.source # "none"
    /\ \E out \in {safelySplitConditionalString(expr.text)} :
           ret' = [NoCall EXCEPT !.op = "safelySplitConditionalString",
                                 !.raised = ~out.ok,
                                 !.conditions = [kind |-> "str", list |-> <<expr.text>>],
                                 !.sub_conditions = out.v]
    /\ UNCHANGED <<catalogue, request, result_table, result_dataframe, expr>>

NextSplit ==
    \/ writeLeaf
    \/ splitLeaf
    \/ requiredFields

SpecSplit == InitSplit /\ [][NextSplit]_vars

\* ------------------------------------------------------------------------
\* Approximate equality: the caller's request is a leaf "~=,t", written by
\* hand and applied
\* ------------------------------------------------------------------------
MaxTolerance == 2

\* the operator "~=,t"
ApproxOperator(t) == <<"~", "=", ",">> \o IntToStr(t)

ApproxRequests ==
    [column_name : {X, Y}, tolerance : 0..MaxTolerance, operand : 0..MaxVal]

InitApprox ==
    /\ catalogue \in BuildCatalogues
    /\ request \in ApproxRequests
    /\ result_table = NoneTable
    /\ result_dataframe = NoneDataframe
    /\ expr = NoExpr
    /\ ret = NoCall

\* the caller writes the leaf "(column_name ~=,t operand)"
writeApprox ==
    /\ expr' = [source |-> "literal",
                text |-> Paren(Leaf(request.column_name,
                                    ApproxOperator(request.tolerance),
                                    IntToStr(request.operand)))]
    /\ ret' = [NoCall EXCEPT !.op = "writeExpression"]
    /\ UNCHANGED <<catalogue, request, result_table, result_dataframe>>

NextApprox ==
    \/ getQuery
    \/ writeApprox
    \/ applyString

SpecApprox == InitApprox /\ [][NextApprox]_vars

\* ------------------------------------------------------------------------
\* Operand order: the caller's request is two sub-expressions P and Q and a
\* boolean operator, written as "(P op Q)" and applied
\* ------------------------------------------------------------------------
\* (x > 1), (y < 5), ((x > 1)|(y < 5)), ((y < 5)&(x < 3))
Operands2 ==
    {Paren(Leaf(X, GT, <<"1">>)),
     Paren(Leaf(Y, LT, <<"5">>)),
     Paren(OrOf(Paren(Leaf(X, GT, <<"1">>)), Paren(Leaf(Y, LT, <<"5">>)))),
     Paren(AndOf(Paren(Leaf(Y, LT, <<"5">>)), Paren(Leaf(X, LT, <<"3">>))))}

OrderRequests == [P : Operands2, Q : Operands2, op : {"&", "|"}]

\* "(" + P + op + Q + ")"
Binary(P, op, Q) == Paren(P \o <<op>> \o Q)

InitOrder ==
    /\ catalogue \in BuildCatalogues
    /\ request \in OrderRequests
    /\ result_table = NoneTable
    /\ result_dataframe = NoneDataframe
    /\ expr = NoExpr
    /\ ret = NoCall

\* the caller writes "(P op Q)"
writeBinary ==
    /\ expr' = [source |-> "literal", text |-> Binary(request.P, request.op, request.Q)]
    /\ ret' = [NoCall EXCEPT !.op = "writeExpression"]
    /\ UNCHANGED <<catalogue, request, result_table, result_dataframe>>

NextOrder ==
    \/ getQuery
    \/ writeBinary
    \/ applyString

SpecOrder == InitOrder /\ [][NextOrder]_vars

\* ------------------------------------------------------------------------
\* Conjunctions: the caller's request is a sequence of builder requests; the
\* built expressions are applied as a chain, or combined with "&" and applied
\* ------------------------------------------------------------------------
MaxConjuncts == 3

\* buildLeaf("x", ">", 3), ("x", "!=", 3), ("x", ">", [1, 4]), ("y", ">", 3),
\* ("y", "=", [3, 4])
ConjunctRequests ==
    {Request(X, GT, Scalar(3), "|"),
     Request(X, <<"!", "=">>, Scalar(3), "|"),
     Request(X, GT, ListOf(<<1, 4>>), "|"),
     Request(Y, GT, Scalar(3), "|"),
     Request(Y, EQ, ListOf(<<3, 4>>), "|")}

ConjunctionRequests == UNION {[1..n -> ConjunctRequests] : n \in 1..MaxConjuncts}

\* E1..En: the expression built from each request of a sequence
BuiltList(requests) ==
    [i \in 1..Len(requests) |->
        buildConditionalArgument(requests[i].column_name, requests[i].operator,
                                 requests[i].values, requests[i].boolean_operator)]

InitConjunction ==
    /\ catalogue \in {WithIds(ExampleRows), WithIds(ExampleRowsX),
                       WithIds(ExampleRowsNested)}
    /\ request \in ConjunctionRequests
    /\ result_table = NoneTable
    /\ result_dataframe = NoneDataframe
    /\ expr = NoExpr
    /\ ret = NoCall

\* applyQueryCriteria([E1, .., En])
applyBuiltChain ==
    applyQueryCriteria([kind |-> "list", list |-> BuiltList(request)])

\* combineConditionalArguments(E1, .., En, boolean_operator="&")
combineBuilt ==
    /\ \E out \in {combineConditionalArguments(BuiltList(request), "&")} :
            /\ expr' = [source |-> "combine", text |-> out.v]
            /\ ret' = [NoCall EXCEPT !.op = "combineConditionalArguments",
                                     !.raised = ~out.ok,
                                     !.conditions = [kind |-> "list",
                                                     list |-> BuiltList(request)]]
    /\ UNCHANGED <<catalogue, request, result_table, result_dataframe>>

NextConjunction ==
    \/ getQuery
    \/ applyBuiltChain
    \/ combineBuilt
    \/ applyString

SpecConjunction == InitConjunction /\ [][NextConjunction]_vars

\* ------------------------------------------------------------------------
\* Quantities: requests whose values are astropy quantities, built and
\* scanned for their fields
\* ------------------------------------------------------------------------
Arcsec == <<"a", "r", "c", "s", "e", "c">>
MasPerYr == <<"m", "a", "s", " ", "/", " ", "y", "r">>

QuantityValues ==
    {Quantity(v, unit) : v \in 0..MaxVal, unit \in {Arcsec, MasPerYr}}
    \cup {QuantityList(l, unit) : l \in ValueLists, unit \in {Arcsec, MasPerYr}}

QuantityRequests ==
    {Request(c, op, v, "|") :
        c \in {X, Y}, op \in {GE, BetweenStr}, v \in QuantityValues}

InitQuantity ==
    /\ catalogue \in {WithIds(ExampleRowsX)}
    /\ request \in QuantityRequests
    /\ result_table = NoneTable
    /\ result_dataframe = NoneDataframe
    /\ expr = NoExpr
    /\ ret = NoCall

NextQuantity ==
    \/ build
    \/ requiredFields

SpecQuantity == InitQuantity /\ [][NextQuantity]_vars

\* ------------------------------------------------------------------------
\* Multi-valued cells: leaves over the str column OTYPES against catalogues
\* whose OTYPES cells hold one value, several values or none
\* ------------------------------------------------------------------------
LikeOp == <<"l", "i", "k", "e">>
NotLikeOp == <<"!">> \o LikeOp
InOp == <<"i", "n">>
NotInOp == <<"!">> \o InOp

CellOperators == {EQ, EQEQ, NE, LikeOp, NotLikeOp, InOp, NotInOp, LT}

CellValues == {<<"A">>, <<"B">>}

OtypesPool ==
    {<<"A">>, <<"B">>, <<"A", "|", "B">>, <<"B", "|", "C">>, <<"a", "|", "B">>, <<>>}

CellRows == {[x |-> 0, y |-> 3, OTYPES |-> o] : o \in OtypesPool}

CellCatalogues ==
    {WithIds(rows) : rows \in UNION {[1..n -> CellRows] : n \in 1..MaxRows}}

CellLeaves == {Paren(Leaf(OTYPES, op, v)) : op \in CellOperators, v \in CellValues}

InitCells ==
    /\ catalogue \in CellCatalogues
    /\ request \in SessionRequests
    /\ result_table = NoneTable
    /\ result_dataframe = NoneDataframe
    /\ expr = NoExpr
    /\ ret = NoCall

\* the caller writes a leaf over OTYPES by hand
writeCellExpression ==
    /\ \E text \in CellLeaves : expr' = [source |-> "literal", text |-> text]
    /\ ret' = [NoCall EXCEPT !.op = "writeExpression"]
    /\ UNCHANGED <<catalogue, request, result_table, result_dataframe>>

NextCells ==
    \/ getQuery
    \/ writeCellExpression
    \/ applyString

SpecCells == InitCells /\ [][NextCells]_vars

\* ------------------------------------------------------------------------
\* Chains of conditions: applyQueryCriteria with a list of up to MaxChain
\* expressions, some of them with a leaf that cannot be evaluated
\* ------------------------------------------------------------------------
MaxChain == 2

XGreater1 == Paren(Leaf(X, GT, <<"1">>))
XLess1 == Paren(Leaf(X, LT, <<"1">>))
YLess5 == Paren(Leaf(Y, LT, <<"5">>))

ValidConditions == {XGreater1, XLess1, YLess5, XAndYWrapped}

\* an unknown operator, a field the table lacks, an operand that is no
\* number, a range of one bound, and a compound holding an unknown operator
UnknownOperator == Paren(Leaf(X, <<"f", "o", "o">>, <<"1">>))
AbsentField == Paren(Leaf(<<"w">>, GT, <<"1">>))
BadOperand == Paren(Leaf(Y, GT, <<"a">>))
OneBound == Paren(Leaf(X, BetweenStr, <<"[", "1", "]">>))
BadCompound == Paren(OrOf(XGreater1, UnknownOperator))

InvalidConditions == {UnknownOperator, AbsentField, BadOperand, OneBound, BadCompound}

Chains == UNION {[1..n -> ValidConditions \cup InvalidConditions] : n \in 0..MaxChain}

InitChain ==
    /\ catalogue \in SessionCatalogues
    /\ request \in SessionRequests
    /\ result_table = NoneTable
    /\ result_dataframe = NoneDataframe
    /\ expr = NoExpr
    /\ ret = NoCall

\* applyQueryCriteria with a list of conditions
applyList ==
    \E conditions \in Chains :
        applyQueryCriteria([kind |-> "list", list |-> conditions])

NextChain ==
    \/ getQuery
    \/ applyList

SpecChain == InitChain /\ [][NextChain]_vars

\* ------------------------------------------------------------------------
\* Errors: chains and arguments of another type against a few catalogues
\* ------------------------------------------------------------------------
InitError ==
    /\ catalogue \in BuildCatalogues \cup {WithIds(ExampleRows)}
    /\ request \in SessionRequests
    /\ result_table = NoneTable
    /\ result_dataframe = NoneDataframe
    /\ expr = NoExpr
    /\ ret = NoCall

NextError ==
    \/ getQuery
    \/ applyList
    \/ applyOther

SpecError == InitError /\ [][NextError]_vars

\* ------------------------------------------------------------------------
\* Properties
\* ------------------------------------------------------------------------
Applied == ret.op = "applyQueryCriteria"

\* the last call was applyQueryCriteria(text) with text a str, on a stored
\* table that had rows
AppliedString(text) ==
    /\ Applied
    /\ ret.conditions = [kind |-> "str", list |-> <<text>>]
    /\ Len(ret.before.rows) > 0

\* the last call was applyQueryCriteria(expr) with the text the builder made
\* of the request, on a stored table that had rows
AppliedBuilt ==
    /\ expr.source = "builder"
    /\ AppliedString(expr.text)

\* the one boolean list the last call got from checkCondition
TheMask == ret.boolean_lists[1]

\* the rows of a table that satisfy P, in order
RowsWhere(rows, P(_)) == SelectSeq(rows, P)

\* C1: evaluating "(x > 1)&(y < 5)", written without an enclosing pair of
\* parentheses, against a non-empty table yields one boolean per row, true
\* exactly for the rows with x > 1 and y < 5
C1_UnwrappedConjunction ==
    AppliedString(XAndY) =>
        /\ ~ret.raised
        /\ Len(ret.boolean_lists) = 1
        /\ TheMask = OkMask([i \in 1..Len(ret.before.rows) |->
                                ret.before.rows[i].x > 1 /\ ret.before.rows[i].y < 5])

\* C2: for every table and every expression of the grammar the row mask
\* checkCondition returns has one entry per row of the table
C2_MaskLength ==
    (/\ Applied
     /\ ret.conditions.kind = "str"
     /\ Len(ret.before.rows) > 0
     /\ Len(ret.boolean_lists) = 1
     /\ TheMask.ok)
    => Len(TheMask.v) = Len(ret.before.rows)

\* C3: getRequiredVotableFields("(x > 1)&((y < 5)|(z = 2))") returns exactly
\* the fields x, y and z
C3_RequiredFields ==
    (/\ ret.op = "getRequiredVotableFields"
     /\ ret.conditions.list = <<XAndYOrZ>>)
    => (~ret.raised /\ ret.fields = {X, Y, Z})

\* C4: for every table, "()" behaves as no condition: the call raises no
\* error and returns the table with all of its rows, in order
C4_EmptyExpressionIdentity ==
    (/\ Applied
     /\ ret.conditions = [kind |-> "str", list |-> <<EmptyExpression>>])
    => (~ret.raised /\ ret.returned = ret.before)

\* C5: a bare leaf "field op value" evaluates to the same row mask as the
\* same leaf in one pair of parentheses
C5_BareLeafSameMask ==
    \A leaf \in BareLeaves :
        AppliedString(leaf) =>
            /\ ~ret.raised
            /\ Len(ret.boolean_lists) = 1
            /\ TheMask = checkCondition(ret.before, Paren(leaf))

\* C6: applying an expression that evaluates without error a second time,
\* to the result of the first application, yields the same rows as applying
\* it once
C6_Idempotent ==
    (Applied /\ ret.again) =>
        /\ ~ret.raised
        /\ ret.returned.rows = ret.before.rows
        /\ result_table.rows = ret.before.rows

\* C6 witness: a second application of an expression whose first application
\* removed some rows and kept others
C6_Witness ==
    /\ Applied
    /\ ret.again
    /\ ret.conditions.kind = "str"
    /\ Len(ret.returned.rows) > 0
    /\ Len(ret.returned.rows) < Len(catalogue)

\* C7, as stated: after any applyQueryCriteria call the stored result_table
\* and result_dataframe hold the same rows as before the call
C7_StoredUnchanged ==
    Applied => (result_table = ret.before /\ result_dataframe = ret.before_dataframe)

\* the rows left after the boolean lists are applied one after the other
RECURSIVE FilteredBy(_, _)
FilteredBy(rows, boolean_lists) ==
    IF boolean_lists = <<>> \/ rows = <<>> THEN rows
    ELSE IF boolean_lists[1].v = <<>> THEN <<>>
    ELSE FilteredBy(SelectByMask(rows, boolean_lists[1].v), Tail(boolean_lists))

\* C7, amended: a call that returns stores what it returns: the rows of the
\* table stored before the call that passed its conditions (for a str or a
\* list of conditions on a table with rows; otherwise the stored table as it
\* was), and the stored data frame is the one stored before filtered by the
\* same masks, when none of them is empty
C7_StoredIsFiltered ==
    (Applied /\ ~ret.raised) =>
        /\ result_table = ret.returned
        /\ result_table.rows = FilteredBy(ret.before.rows, ret.boolean_lists)
        /\ (\A k \in 1..Len(ret.boolean_lists) : ret.boolean_lists[k].v # <<>>)
              => result_dataframe.index =
                    FilteredBy(ret.before_dataframe.index, ret.boolean_lists)

\* C7 witness: a call that filters a table an earlier call had already
\* filtered, and removes a further row
C7_Witness ==
    /\ Applied
    /\ ~ret.raised
    /\ Len(ret.before.rows) < Len(catalogue)
    /\ Len(result_table.rows) < Len(ret.before.rows)

\* what an operator of the comparison family means on numbers
Satisfies(operator, cell, v) ==
    CASE operator = LT -> cell < v
      [] operator = GT -> cell > v
      [] operator = LE -> cell <= v
      [] operator = GE -> cell >= v
      [] operator \in {EQ, EQEQ} -> cell = v
      [] operator = NE -> cell # v

\* the values of a request as a set
RequestValues ==
    IF request.values.isList
    THEN {request.values.l[i] : i \in 1..Len(request.values.l)}
    ELSE {request.values.n}

C9_BetweenAnyOrder ==
    (/\ AppliedBuilt
     /\ request.operator = BetweenStr
     /\ request.values.isList
     /\ Len(request.values.l) = 2)
    => /\ ~ret.raised
       /\ ret.returned.rows =
            RowsWhere(ret.before.rows,
                      LAMBDA r :
                          /\ Min(request.values.l[1], request.values.l[2])
                                <= Cell(r, request.column_name)
                          /\ Cell(r, request.column_name)
                                <= Max(request.values.l[1], request.values.l[2]))

\* C10: for "!between" the builder emits one leaf carrying the range [a, b],
\* and evaluating it keeps exactly the rows with cell < a or cell > b
C10_NotBetweenRange ==
    (/\ AppliedBuilt
     /\ request.operator = NotBetweenStr
     /\ request.values.isList
     /\ Len(request.values.l) = 2)
    => /\ expr.text = Paren(Paren(Leaf(request.column_name, NotBetweenStr,
                                       FormatValue(request.values))))
       /\ ~ret.raised
       /\ ret.returned.rows =
            RowsWhere(ret.before.rows,
                      LAMBDA r :
                          \/ Cell(r, request.column_name) < request.values.l[1]
                          \/ Cell(r, request.column_name) > request.values.l[2])

\* what an operator means on one str value
StrSatisfies(operator, alternative, v) ==
    CASE operator \in {EQ, EQEQ} -> alternative = v
      [] operator = NE -> alternative # v
      [] operator = LT -> StrLess(alternative, v)
      [] operator = LikeOp -> ContainsStr(Lower(alternative), Lower(v))
      [] operator = NotLikeOp -> ~ContainsStr(Lower(alternative), Lower(v))
      [] operator = InOp -> ContainsStr(alternative, v)
      [] operator = NotInOp -> ~ContainsStr(alternative, v)

\* the values a cell lists
Alternatives(cell) == {Split(cell, "|")[k] : k \in 1..Len(Split(cell, "|"))}

\* C11: a leaf over a cell that lists several values separated by "|" is
\* true when some value satisfies the operator, for an operator without "!",
\* and when every value satisfies it, for an operator with "!"
C11_MultiValuedCells ==
    \A op \in CellOperators, v \in CellValues :
        AppliedString(Paren(Leaf(OTYPES, op, v))) =>
            /\ ~ret.raised
            /\ Len(ret.boolean_lists) = 1
            /\ TheMask =
                 OkMask([i \in 1..Len(ret.before.rows) |->
                     IF Contains(op, "!")
                     THEN \A a \in Alternatives(ret.before.rows[i].OTYPES) :
                              StrSatisfies(op, a, v)
                     ELSE \E a \in Alternatives(ret.before.rows[i].OTYPES) :
                              StrSatisfies(op, a, v)])

\* C11 witness: on the cells "A|B" and "B|C" the leaf OTYPES != A has given
\* false for the first and true for the second
C11_Witness ==
    /\ AppliedString(Paren(Leaf(OTYPES, NE, <<"A">>)))
    /\ Len(ret.before.rows) = 2
    /\ ret.before.rows[1].OTYPES = <<"A", "|", "B">>
    /\ ret.before.rows[2].OTYPES = <<"B", "|", "C">>
    /\ TheMask = OkMask(<<FALSE, TRUE>>)

\* C12: when the stored result has no rows, applyQueryCriteria raises no
\* error, evaluates no condition, returns a table without rows and leaves the
\* stored result without rows
C12_EmptyStoredResult ==
    (/\ Applied
     /\ ~ret.before.none
     /\ Len(ret.before.rows) = 0)
    => /\ ~ret.raised
       /\ ret.boolean_lists = <<>>
       /\ ~ret.returned.none
       /\ ret.returned.rows = <<>>
       /\ result_table = ret.before

\* C12 witness: a list of two expressions has been applied to a stored
\* result without rows
C12_Witness ==
    /\ Applied
    /\ ~ret.before.none
    /\ Len(ret.before.rows) = 0
    /\ ret.conditions.kind = "list"
    /\ Len(ret.conditions.list) = 2
    /\ \A k \in 1..2 : ret.conditions.list[k] \in ValidConditions

\* what a valid condition of a chain means on a row
ConditionHolds(condition, r) ==
    CASE condition = XGreater1 -> r.x > 1
      [] condition = XLess1 -> r.x < 1
      [] condition = YLess5 -> r.y < 5
      [] condition = XAndYWrapped -> r.x > 1 /\ r.y < 5

\* the rows that satisfy the first k conditions of a chain, in order
RECURSIVE SurvivorsOf(_, _, _)
SurvivorsOf(rows, chain, k) ==
    IF k = 0 THEN rows
    ELSE SelectSeq(SurvivorsOf(rows, chain, k - 1),
                   LAMBDA r : ConditionHolds(chain[k], r))

\* the last call was applyQueryCriteria with a list, on a stored table that
\* had rows
AppliedChain ==
    /\ Applied
    /\ ret.conditions.kind = "list"
    /\ Len(ret.before.rows) > 0

\* C13: a list of expressions is applied in order, the first to the full
\* table, each later one to the rows the earlier ones kept; an expression is
\* evaluated exactly when the rows kept so far are not empty, and the call
\* returns the rows that satisfy every expression
C13_ChainOrder ==
    (/\ AppliedChain
     /\ \A k \in 1..Len(ret.conditions.list) : ret.conditions.list[k] \in ValidConditions)
    => /\ ~ret.raised
       /\ ret.returned.rows =
            SurvivorsOf(ret.before.rows, ret.conditions.list, Len(ret.conditions.list))
       /\ \A k \in 1..Len(ret.conditions.list) :
            (k <= Len(ret.boolean_lists))
                <=> (SurvivorsOf(ret.before.rows, ret.conditions.list, k - 1) # <<>>)
       /\ \A k \in 1..Len(ret.boolean_lists) :
            ret.boolean_lists[k] =
                OkMask([i \in 1..Len(SurvivorsOf(ret.before.rows, ret.conditions.list, k - 1)) |->
                    ConditionHolds(ret.conditions.list[k],
                        SurvivorsOf(ret.before.rows, ret.conditions.list, k - 1)[i])])

\* C13 witness: the first of two expressions has left no row and the second
\* has not been evaluated
C13_Witness ==
    /\ AppliedChain
    /\ Len(ret.conditions.list) = 2
    /\ \A k \in 1..2 : ret.conditions.list[k] \in ValidConditions
    /\ Len(ret.boolean_lists) = 1
    /\ ret.returned.rows = <<>>

\* C13 witness of the other case: the second expression has removed a row
\* the first had kept
C13_WitnessSecondFilters ==
    /\ AppliedChain
    /\ Len(ret.conditions.list) = 2
    /\ Len(ret.boolean_lists) = 2
    /\ ~ret.raised
    /\ Len(ret.boolean_lists[2].v) < Len(ret.before.rows)
    /\ Len(ret.returned.rows) < Len(ret.boolean_lists[2].v)

\* C14: with conditions None, or an empty list or tuple, on a table with
\* rows, the call returns every row in the original order and removes no
\* row from the stored result
C14_NoConditions ==
    (/\ Applied
     /\ ret.conditions \in {NoConditions, [kind |-> "list", list |-> <<>>]}
     /\ Len(ret.before.rows) > 0)
    => /\ ~ret.raised
       /\ ret.returned = ret.before
       /\ result_table = ret.before
       /\ result_dataframe = ret.before_dataframe

\* C14 witness: the empty list has been applied to a table of two rows
C14_Witness ==
    /\ Applied
    /\ ret.conditions = [kind |-> "list", list |-> <<>>]
    /\ Len(ret.before.rows) = 2
    /\ ret.returned.rows = ret.before.rows

FirstInvalid(chain) ==
    IF \E k \in 1..Len(chain) : chain[k] \in InvalidConditions
    THEN CHOOSE k \in 1..Len(chain) :
            /\ chain[k] \in InvalidConditions
            /\ \A j \in 1..(k - 1) : chain[j] \in ValidConditions
    ELSE 0

Built == expr.source = "builder"

\* the values of the request in order
RequestValueSeq ==
    IF request.values.isList THEN request.values.l ELSE <<request.values.n>>

\* "(field operator v1)" op "(field operator v2)" op ... for plain ints
RECURSIVE JoinedLeaves(_, _, _, _)
JoinedLeaves(column_name, operator, vs, boolean_operator) ==
    IF Len(vs) = 1
    THEN <<"(">> \o column_name \o <<" ">> \o operator \o <<" ">> \o IntToStr(vs[1]) \o <<")">>
    ELSE <<"(">> \o column_name \o <<" ">> \o operator \o <<" ">> \o IntToStr(vs[1]) \o <<")">>
         \o <<boolean_operator>>
         \o JoinedLeaves(column_name, operator, Tail(vs), boolean_operator)

\* C16: for a non-range operator the builder emits one leaf "(field operator
\* value)" per value, in the order of the values, joined with the given
\* boolean operator and wrapped in one more pair of parentheses; a value that
\* is no list gives "((field operator v))"
C16_BuiltText ==
    (Built /\ request.operator \in ComparisonOperators)
    => expr.text =
         <<"(">>
         \o JoinedLeaves(request.column_name, request.operator, RequestValueSeq,
                         request.boolean_operator)
         \o <<")">>

\* C16 witness: buildLeaf("x", ">", [1, 2], "&") has given "((x > 1)&(x > 2))"
C16_Witness ==
    /\ Built
    /\ request = Request(X, GT, ListOf(<<1, 2>>), "&")
    /\ expr.text = <<"(", "(", "x", " ", ">", " ", "1", ")", "&",
                     "(", "x", " ", ">", " ", "2", ")", ")">>

\* C17: the text built from quantities contains no unit name: every quantity
\* is rendered as its plain number
C17_UnitStripped ==
    (Built /\ request.values.unit # <<>>)
    => ~ContainsStr(expr.text, request.values.unit)

\* combineConditionalArguments has returned
Combined == ret.op = "combineConditionalArguments" /\ ~ret.raised

\* e1 op e2 op ... op en
RECURSIVE JoinedExpressions(_, _)
JoinedExpressions(es, boolean_operator) ==
    IF Len(es) = 1 THEN es[1]
    ELSE es[1] \o <<boolean_operator>> \o JoinedExpressions(Tail(es), boolean_operator)

\* C18: combineConditionalArguments returns a single expression unchanged,
\* and two or more expressions e1..en as "(" e1 op e2 ... op en ")" in
\* argument order with the given boolean operator; with "&" or "|" it returns
C18_Combined ==
    /\ (ret.op = "combineConditionalArguments" /\ request.boolean_operator \in {"&", "|"})
       => ~ret.raised
    /\ (Combined /\ Len(ret.conditions.list) = 1)
       => expr.text = ret.conditions.list[1]
    /\ (Combined /\ Len(ret.conditions.list) >= 2)
       => expr.text = <<"(">>
                      \o JoinedExpressions(ret.conditions.list, request.boolean_operator)
                      \o <<")">>

\* C18 witness: three different expressions, one of them built, were combined
\* with "&", and one expression alone was returned as it is
C18_Witness ==
    /\ Combined
    /\ request.boolean_operator = "&"
    /\ Len(ret.conditions.list) = 3
    /\ ret.conditions.list[1] # ret.conditions.list[2]
    /\ ret.conditions.list[2] # ret.conditions.list[3]
    /\ ret.conditions.list[1] # ret.conditions.list[3]

\* a single expression was combined
C18_WitnessSingle ==
    /\ Combined
    /\ Len(ret.conditions.list) = 1
    /\ expr.text = ret.conditions.list[1]

\* the value of a tree for a row: a leaf by its comparison, & as AND, | as OR
RECURSIVE TreeValue(_, _)
TreeValue(t, r) ==
    IF t.op = "leaf"
    THEN Satisfies(t.operator, IF t.column_name = X THEN r.x ELSE r.y, t.value)
    ELSE IF t.op = "&"
    THEN \A i \in 1..Len(t.children) : TreeValue(t.children[i], r)
    ELSE \E i \in 1..Len(t.children) : TreeValue(t.children[i], r)

\* the nesting depth of a tree: 0 for a leaf
RECURSIVE DepthOf(_)
DepthOf(t) ==
    IF t.op = "leaf" THEN 0
    ELSE 1 + (CHOOSE d \in {DepthOf(t.children[i]) : i \in 1..Len(t.children)} :
                 \A j \in 1..Len(t.children) : DepthOf(t.children[j]) <= d)

\* the caller's tree, written out, was applied to a stored table with rows
AppliedNested ==
    /\ expr.source = "literal"
    /\ expr.text = Render(request)
    /\ AppliedString(expr.text)

\* C19: for a wrapped, fully parenthesized compound of pairwise distinct
\* leaves, nested to any depth, the call does not raise and the mask value of
\* every row is the value of the boolean tree for that row
C19_NestedMask ==
    AppliedNested
    => /\ ~ret.raised
       /\ TheMask.ok
       /\ Len(TheMask.v) = Len(ret.before.rows)
       /\ \A i \in 1..Len(ret.before.rows) :
              TheMask.v[i] = TreeValue(request, ret.before.rows[i])

\* C19 witness: ((x > 1)&((y < 5)|((x < 3)&(x != 2)))), nested three deep,
\* was applied to the rows {x:2,y:3}, {x:0,y:3}, {x:2,y:9}
C19_Witness ==
    /\ AppliedNested
    /\ DepthOf(request) = 3
    /\ expr.text = Paren(AndOf(Paren(Leaf(X, GT, <<"1">>)),
                      Paren(OrOf(Paren(Leaf(Y, LT, <<"5">>)),
                          Paren(AndOf(Paren(Leaf(X, LT, <<"3">>)),
                                      Paren(Leaf(X, NE, <<"2">>))))))))
    /\ ret.before.rows = WithIds(ExampleRows)
    /\ TheMask.v = <<TRUE, FALSE, FALSE>>

\* the texts of the leaves of a tree from left to right
RECURSIVE LeafTexts(_)
LeafTexts(t) ==
    IF t.op = "leaf" THEN <<Render(t)>>
    ELSE IF Len(t.children) = 2
    THEN LeafTexts(t.children[1]) \o LeafTexts(t.children[2])
    ELSE LeafTexts(t.children[1]) \o LeafTexts(t.children[2]) \o LeafTexts(t.children[3])

\* getAllSubConditions was called with the caller's tree, written out
ScannedWrapped ==
    /\ ret.op = "getAllSubConditions"
    /\ ret.conditions.list = <<Render(request)>>

ScannedUnwrapped ==
    /\ ret.op = "getAllSubConditions"
    /\ ret.conditions.list = <<RenderUnwrapped(request)>>

\* C20: getAllSubConditions of a compound, at any nesting depth and with or
\* without the outer pair of parentheses, returns exactly the leaves of the
\* tree, each as its parenthesized text, from left to right
C20_AllLeaves ==
    (ScannedWrapped \/ ScannedUnwrapped)
    => /\ ~ret.raised
       /\ ret.sub_conditions = LeafTexts(request)

\* the leaves of a wrapped compound are all returned in order
C20_AllLeavesOfWrapped ==
    ScannedWrapped
    => /\ ~ret.raised
       /\ ret.sub_conditions = LeafTexts(request)

\* the texts of the children of a compound in order
ChildTexts(t) == [i \in 1..Len(t.children) |-> Render(t.children[i])]

\* getSubConditions was called with the caller's tree, written out wrapped
FirstLayerScanned ==
    /\ ret.op = "getSubConditions"
    /\ ret.conditions.list = <<Render(request)>>

\* C21: getSubConditions of a fully parenthesized compound returns exactly
\* the immediate operands of its top-level operators, in order, at every
\* nesting depth, and no group that lies deeper
C21_FirstLayer ==
    FirstLayerScanned
    => /\ ~ret.raised
       /\ ret.sub_conditions = ChildTexts(request)

\* the immediate operands are returned when none of them nests more than one
\* further level of parentheses
C21_FirstLayerOfShallow ==
    (FirstLayerScanned /\ DepthOf(request) <= 2)
    => /\ ~ret.raised
       /\ ret.sub_conditions = ChildTexts(request)

\* applyOperator was called with the given operator
OperatorApplied(operator) ==
    /\ ret.op = "applyOperator"
    /\ request.operator = operator

\* the operand of the request is a list of exactly two numbers
TwoBounds == request.value.k = "list" /\ Len(request.value.l) = 2

\* C22: "!between" takes the bounds as given: NOT (a <= v <= b) with a the
\* first and b the second element; it is the negation of "between" when
\* a <= b, and true for every v when a > b
C22_NotBetweenLiteral ==
    (OperatorApplied(NotBetweenStr) /\ TwoBounds)
    => /\ ~ret.raised
       /\ ret.result = ~(/\ request.value.l[1] <= request.column_value.n
                          /\ request.column_value.n <= request.value.l[2])
       /\ request.value.l[1] <= request.value.l[2]
          => ret.result = ~applyOperator(BetweenStr, request.column_value, request.value).v
       /\ request.value.l[1] > request.value.l[2] => ret.result

\* C22 witness: applyOperator("!between", 2, [3, 1]) has returned True
C22_Witness ==
    /\ OperatorApplied(NotBetweenStr)
    /\ request.column_value.n = 2
    /\ request.value.l = <<3, 1>>
    /\ ~ret.raised
    /\ ret.result

\* C25: "between" and "!between" raise whenever the operand is no list of
\* exactly two elements: a scalar, an empty list, one element, three or more
C25_RangeArity ==
    ((OperatorApplied(BetweenStr) \/ OperatorApplied(NotBetweenStr)) /\ ~TwoBounds)
    => ret.raised

\* C25 witness: "between" was applied to a list of three elements with the
\* cell inside the first two, and raised
C25_Witness ==
    /\ OperatorApplied(BetweenStr)
    /\ request.value.k = "list"
    /\ Len(request.value.l) = 3
    /\ request.value.l[1] <= request.column_value.n
    /\ request.column_value.n <= request.value.l[2]
    /\ ret.raised

\* a scalar operand raised for "!between"
C25_WitnessScalar ==
    /\ OperatorApplied(NotBetweenStr)
    /\ request.value.k = "num"
    /\ ret.raised

\* what a range operator means with the list (a, b) as its operand
RangeHolds(operator, cell, a, b) ==
    IF operator = BetweenStr
    THEN Min(a, b) <= cell /\ cell <= Max(a, b)
    ELSE ~(a <= cell /\ cell <= b)

\* the caller's range leaf was applied to a stored table with rows
AppliedRange ==
    /\ expr.source = "literal"
    /\ AppliedString(expr.text)

\* C23: a leaf with the bracketed value token "[a,b]" is evaluated with the
\* two-element list (a, b) as the operand, on a column that declares a unit
\* and on a column that declares none
C23_BracketedOperand ==
    AppliedRange
    => /\ ~ret.raised
       /\ TheMask.ok
       /\ Len(TheMask.v) = Len(ret.before.rows)
       /\ \A i \in 1..Len(ret.before.rows) :
              TheMask.v[i] = RangeHolds(request.operator,
                                        Cell(ret.before.rows[i], request.column_name),
                                        request.a, request.b)

\* on the column that declares a unit the operand is the list (a, b)
C23_BracketedOperandWithUnit ==
    (AppliedRange /\ request.column_name = X)
    => /\ ~ret.raised
       /\ \A i \in 1..Len(ret.before.rows) :
              TheMask.v[i] = RangeHolds(request.operator,
                                        Cell(ret.before.rows[i], request.column_name),
                                        request.a, request.b)

\* safelySplitConditionalString was called with the caller's leaf, written
\* out in at most two layers of parentheses
SplitApplied ==
    /\ ret.op = "safelySplitConditionalString"
    /\ request.layers <= 2

\* C24: safelySplitConditionalString raises whenever the leaf, stripped of
\* its parentheses, splits on blanks into fewer than 3 tokens; it returns no
\* triple for such a leaf
C24_FewTokensRaise ==
    (SplitApplied /\ Len(request.tokens) < 3) => ret.raised

\* a leaf of one token raises
C24_OneTokenRaises ==
    (SplitApplied /\ Len(request.tokens) = 1) => ret.raised

\* a leaf of field and operator gives a triple with an empty value
C24_TwoTokensReturn ==
    (SplitApplied /\ Len(request.tokens) = 2)
    => /\ ~ret.raised
       /\ ret.sub_conditions = <<request.tokens[1], request.tokens[2], <<>>>>

\* the caller's leaf "~=,t" was applied to a stored table with rows
AppliedApprox ==
    /\ expr.source = "literal"
    /\ AppliedString(expr.text)

\* the distance of the cell of a row from the operand of the request
Distance(r) ==
    IF Cell(r, request.column_name) >= request.operand
    THEN Cell(r, request.column_name) - request.operand
    ELSE request.operand - Cell(r, request.column_name)

\* C26: a leaf "~=,t" evaluates without error on numeric columns with and
\* without a unit, and is true for a row exactly when
\* abs(cell - operand) <= t, the boundary included
C26_ApproxEqual ==
    AppliedApprox
    => /\ ~ret.raised
       /\ TheMask.ok
       /\ Len(TheMask.v) = Len(ret.before.rows)
       /\ \A i \in 1..Len(ret.before.rows) :
              TheMask.v[i] = (Distance(ret.before.rows[i]) <= request.tolerance)

\* on the column that declares a unit the leaf is true exactly within the
\* tolerance
C26_ApproxEqualWithUnit ==
    (AppliedApprox /\ request.column_name = X)
    => /\ ~ret.raised
       /\ \A i \in 1..Len(ret.before.rows) :
              TheMask.v[i] = (Distance(ret.before.rows[i]) <= request.tolerance)

\* the caller's "(P op Q)" was applied to a stored table with rows
AppliedBinary ==
    /\ expr.source = "literal"
    /\ AppliedString(expr.text)

\* the mask of "(Q op P)" on the table the call started from
SwappedMask == checkCondition(ret.before, Binary(request.Q, request.op, request.P))

\* C27: "(P op Q)" and "(Q op P)" both evaluate without error and give the
\* same mask, also when the text of a leaf occurs as P and inside Q
C27_Commutative ==
    AppliedBinary
    => /\ ~ret.raised
       /\ SwappedMask.ok
       /\ TheMask = SwappedMask

\* the leaf (x > 1) is P and occurs inside Q, or the other way round
SharedLeaf ==
    /\ request.P # request.Q
    /\ \/ ContainsStr(request.Q, request.P)
       \/ ContainsStr(request.P, request.Q)

\* operands that share no leaf text, or are the same text, commute
C27_CommutativeUnshared ==
    (AppliedBinary /\ ~SharedLeaf)
    => /\ ~ret.raised
       /\ SwappedMask.ok
       /\ TheMask = SwappedMask

\* C28: when applyQueryCriteria raises, for an argument of an invalid type
\* or for a condition of a chain that fails, also after earlier conditions of
\* the chain were applied, the stored table and frame are those from before
\* the call
C28_UnchangedOnError ==
    (Applied /\ ret.raised)
    => /\ result_table = ret.before
       /\ result_dataframe = ret.before_dataframe

\* C28 witness: the second condition of a chain raised after the first had
\* kept some rows and dropped others
C28_Witness ==
    /\ Applied
    /\ ret.raised
    /\ ret.conditions.kind = "list"
    /\ Len(ret.conditions.list) = 2
    /\ Len(ret.boolean_lists) = 2
    /\ ret.boolean_lists[1].ok
    /\ \E i \in 1..Len(ret.boolean_lists[1].v) : ret.boolean_lists[1].v[i]
    /\ \E i \in 1..Len(ret.boolean_lists[1].v) : ~ret.boolean_lists[1].v[i]
    /\ result_table = ret.before

\* an argument of another type raised
C28_WitnessType ==
    /\ Applied
    /\ ret.raised
    /\ ret.conditions.kind = "other"
    /\ Len(result_table.rows) > 0

\* row i of the stored frame and row i of the stored table come from the
\* same row of the query result
RowAligned ==
    /\ Len(result_dataframe.index) = Len(result_table.rows)
    /\ \A i \in 1..Len(result_table.rows) :
           result_dataframe.index[i] = result_table.rows[i].id

\* C29: after any sequence of getQuery and applyQueryCriteria calls that
\* return without error the stored table and frame are row-aligned: the same
\* number of rows, and row i of each from the same row of the query result
C29_RowAligned ==
    (~result_table.none /\ ~ret.raised) => RowAligned

\* the stored table and frame stay aligned as long as no call got an empty
\* boolean list for a table with rows
C29_RowAlignedChains ==
    ~result_table.none => RowAligned

\* the last call applied the chain E1..En to a stored table with rows
AppliedBuiltChain ==
    /\ Applied
    /\ ret.conditions = [kind |-> "list", list |-> BuiltList(request)]
    /\ Len(ret.before.rows) > 0

\* what applyQueryCriteria(combine(E1, .., En, "&")) gives for the table and
\* frame the last call started from
CombinedOutcome ==
    applyQueryCriteriaOutcome(
        ret.before, ret.before_dataframe,
        [kind |-> "str",
         list |-> <<combineConditionalArguments(BuiltList(request), "&").v>>])

\* the rows of the table before the call that satisfy every request of the
\* sequence for one of its values
ConjunctionRows ==
    RowsWhere(ret.before.rows,
              LAMBDA r :
                  \A k \in 1..Len(request) :
                      \E v \in (IF request[k].values.isList
                                 THEN {request[k].values.l[j] :
                                          j \in 1..Len(request[k].values.l)}
                                 ELSE {request[k].values.n}) :
                          Satisfies(request[k].operator,
                                    Cell(r, request[k].column_name), v))

\* C30: for expressions E1..En built with a non-range operator, the chain
\* [E1, .., En] returns the same rows in the same order as the expression
\* combined with "&", applied to the same table: the rows that satisfy every
\* Ei
C30_ChainEqualsConjunction ==
    AppliedBuiltChain
    => /\ ~ret.raised
       /\ ~CombinedOutcome.raised
       /\ ret.returned.rows = CombinedOutcome.returned.rows
       /\ ret.returned.rows = ConjunctionRows

\* C30 witness: a chain of three expressions, the first two different, has
\* kept some rows of the table and dropped others
C30_Witness ==
    /\ AppliedBuiltChain
    /\ Len(request) = 3
    /\ request[1] # request[2]
    /\ Len(ret.returned.rows) > 0
    /\ Len(ret.returned.rows) < Len(ret.before.rows)
    /\ ret.returned.rows = CombinedOutcome.returned.rows

====
